---- MODULE Spec2Model ----
(***************************************************************************)
(* Work-hierarchy resolution of the Classical Extras plugin               *)
(* (src/plugins/classical_extras/__init__.py, class PartLevels).          *)
(*                                                                         *)
(* The state is the PartLevels instance (works_cache, parts, works_queue,  *)
(* work_listing, top, ...), each release's album._requests counter, the    *)
(* per-track ~cwp_error / ~cwp_warning tags and the XML lookups handed to  *)
(* the web service that have not been answered yet.  One action per        *)
(* callback: add_work_info (a track arrives) and work_process (a lookup    *)
(* is answered, with or without an error); a further action lets the host  *)
(* load a release again.                                                   *)
(***************************************************************************)
EXTENDS Integers, Sequences, FiniteSets, Bags, TLC

\* ------------------------------------------------------------------ bounds
NumTracks == 2          \* tracks of the longer release (totaltracks, one disc)
MaxFaults == 1          \* error replies and malformed replies in one run of Spec
MaxReloads == 1         \* reloads of releases in one run of SpecReload

\* --------------------------------------------------------- program constants
DefaultRetries == 6     \* default of options["cwp_retries"]
cwp_use_sk == FALSE     \* options["cwp_use_sk"]
cwp_partial == TRUE     \* default of options["cwp_partial"]

\* ------------------------------------------------------------ the universe
Albums == {"A", "B"}
Works == {"a", "b", "p", "q", "c", "d", "e", "s", "x", "y", "f"}

\* the works whose relation to a recording carries the attribute 'partial'
PartialWorks == {"x", "y"}

\* musicbrainz_recordingid of a track: the first track of each release is the
\* same recording
Recording(track) == IF track[2] = 1 THEN "r" ELSE "m"

\* totaltracks of the release; every release has one disc
TotalTracks(al) == IF al = "A" THEN NumTracks ELSE 1

Tracks == {t \in Albums \X (1..NumTracks) : t[2] <= TotalTracks(t[1])}

\* The relation data held by the catalogue: the "parts" parents of each work,
\* as a lookup of the work returns them.
Catalogue == [w \in Works |->
                CASE w = "a" -> <<"p">>
                  [] w = "b" -> <<"q">>
                  [] w = "c" -> <<"d">>
                  [] w = "d" -> <<"s">>
                  [] w = "e" -> <<"s">>
                  [] w = "f" -> <<"c">>
                  [] OTHER   -> <<>>]

\* Title of a work in the catalogue.
Title == [w \in Works |->
                CASE w = "a" -> "Allegro"
                  [] w = "b" -> "Adagio"
                  [] w = "p" -> "Symphony"
                  [] w = "c" -> "Aria"
                  [] w = "d" -> "Act"
                  [] w = "e" -> "Finale"
                  [] w = "s" -> "Opera"
                  [] w = "x" -> "Mass"
                  [] w = "y" -> "Requiem"
                  [] w = "f" -> "Recitative"
                  [] OTHER   -> "Cycle"]

\* The releases a run loads: the musicbrainz_workid list of each track, already
\* in ordering-key order; <<>> is a track without work relation.
LibSame == [t \in Tracks |-> <<"a">>]
LibMulti == [t \in Tracks |-> IF t[2] > 2 THEN <<>> ELSE <<"a", "b">>]
LibOrphanLast == [t \in Tracks |->
                    IF t[1] = "A" /\ t[2] = TotalTracks("A") THEN <<>> ELSE <<"a">>]
LibMixed == [t \in Tracks |->
               IF t[1] = "B" \/ t[2] > 2 THEN <<>>
               ELSE IF t[2] = 1 THEN <<"a">> ELSE <<"a", "b">>]
LibOrphanFirst == [t \in Tracks |->
                     IF t[2] > 2 THEN <<>> ELSE IF t[1] = "B" THEN <<"a", "b">>
                     ELSE IF t[2] = 1 THEN <<>> ELSE <<"a">>]
\* a release of an aria of an act and of the finale of the same opera
LibDeep == [t \in Tracks |->
              IF t[2] > 2 THEN <<>> ELSE IF t[2] = 1 THEN <<"c">> ELSE <<"e">>]
\* a release of partial recordings: one of a mass, one of that mass and of a
\* requiem
LibPartial == [t \in Tracks |->
                 IF t[2] > 2 THEN <<>> ELSE IF t[2] = 1 THEN <<"x">> ELSE <<"x", "y">>]
\* releases whose first track is a recording of two works, a movement of a
\* symphony and a whole opera
LibUneven == [t \in Tracks |-> IF t[2] = 1 THEN <<"a", "s">> ELSE <<>>]
\* a release with a movement of a symphony and a recording of the whole
\* symphony
LibNested == [t \in Tracks |->
                IF t[2] > 2 THEN <<>> ELSE IF t[2] = 1 THEN <<"a">> ELSE <<"p">>]
\* a release of recitatives of an aria of an act of the opera
LibChain == [t \in Tracks |-> <<"f">>]
\* the same with a whole symphony on the second track
LibChainMulti == [t \in Tracks |-> IF t[2] = 2 THEN <<"p">> ELSE <<"f">>]
Libraries == {LibSame, LibMulti, LibOrphanLast, LibMixed, LibOrphanFirst}

AUTH_ERROR == 204       \* str(error) == '204'
OTHER_ERROR == 5        \* any other network error code
ErrorCodes == {AUTH_ERROR, OTHER_ERROR}

ERR_AUTH == "3. Authentication failure - data retrieval omits user-specific requests"
ERR_RETRIES == "4. ERROR: MISSING METADATA due to network errors. Re-try or fix manually."
ERR_FORMAT == "5. MusicBrainz work xml result not in correct format for work id"
WARN_NO_WORKS == "3. No works for this track"

VARIABLES
    options,        \* the option settings in force (USE_CACHE, ERROR/INFO, alias user tags, retries)
    library,        \* the musicbrainz_workid list of every track the host will deliver
    works_cache,    \* self.works_cache: key -> list of parent ids
    parts,          \* self.parts: key -> metadata of the work
    works_queue,    \* self.works_queue.queue: work id -> waiting (track, album) pairs
    work_listing,   \* self.work_listing[album]: list of keys
    top,            \* self.top[album]: list of top-level keys
    top_works,      \* self.top_works[(track, album)]['workId']
    trackback,      \* self.trackback[album]: key -> 'meta' list of the tracks
    partof,         \* self.partof[album]: parent key -> child keys
    orphan_tracks,  \* self.orphan_tracks[album]
    requests,       \* album._requests (the part the plugin adds and removes)
    inflight,       \* lookups handed to album.tagger.xmlws.get, not yet answered
    cwp_error,      \* track.metadata['~cwp_error']
    cwp_warning,    \* track.metadata['~cwp_warning']
    seen,           \* number of tracks of the release the host has delivered
    assembled,      \* per release: number of process_album runs
    finalized,      \* per release: album._finalize_loading(None) was called
    built,          \* per release: the trackback trees of the last process_album run
    cwp_tags,       \* per track: ~cwp_workid_<n>, ~cwp_part_levels, ~cwp_workid_top
    loads,          \* per release: the number of times the host has reloaded it
    aborted,        \* a callback has ended in an exception
    last,           \* the lookup the last callback answered, its error code, reply and waiters
    auth_failed,    \* work ids whose lookup, still being retried, met the authentication error
    failed_works,   \* work ids whose lookup was given up and has not been asked for since
    nfaults,        \* error replies and malformed replies given so far
    args,           \* the arguments of the string function being evaluated
    result,         \* what the string function has returned
    collection,     \* the Collection of works: pending, size, works
    xmlws,          \* the requests handed to WorksXmlWebService, not yet answered
    confirm,        \* ConfirmDialog: member_set
    update_list     \* update_list of the work collection plugin

vars == <<options, library, works_cache, parts, works_queue, work_listing, top, top_works,
          trackback, partof, orphan_tracks, requests, inflight, cwp_error,
          cwp_warning, seen, assembled, finalized, built, cwp_tags, loads, aborted,
          last,
          auth_failed, failed_works, nfaults, args, result,
          collection, xmlws, confirm, update_list>>

\* ------------------------------------------------------------------ helpers
Range(s) == {s[i] : i \in DOMAIN s}

\* dict[k] = v
Put(f, k, v) == [x \in (DOMAIN f) \cup {k} |-> IF x = k THEN v ELSE f[x]]

\* del dict[k]
Del(f, k) == [x \in (DOMAIN f) \ {k} |-> f[x]]

\* if x not in list: list.append(x)
AppendNew(s, x) == IF x \in Range(s) THEN s ELSE Append(s, x)

\* list(collections.OrderedDict.fromkeys(s))
RECURSIVE Dedup(_)
Dedup(s) == IF s = <<>> THEN <<>>
            ELSE AppendNew(Dedup(SubSeq(s, 1, Len(s) - 1)), s[Len(s)])

\* a fresh entry of the defaultdict self.parts
NoPart == [name |-> <<>>, parent |-> <<>>, no_parent |-> FALSE, meta |-> <<>>]

\* self.parts[k] (reading a missing key of the defaultdict yields an empty entry)
PartOf(p, k) == IF k \in DOMAIN p THEN p[k] ELSE NoPart

add_list_uniquely_dup(list_to, list_from) == list_to \o list_from

RECURSIVE add_list_uniquely(_, _)
add_list_uniquely(list_to, list_from) ==
    IF list_to # <<>> /\ list_from # <<>>
    THEN IF Len(list_from) = 1
         THEN AppendNew(list_to, list_from[1])
         ELSE add_list_uniquely(AppendNew(list_to, list_from[1]), Tail(list_from))
    ELSE IF list_from # <<>> THEN list_from ELSE list_to

\* append_tag(release_id, tm, tag, source) for a string source: the tag
\* becomes a list and the item is added unless it is already there
append_tag(tagvalue, source) == AppendNew(tagvalue, source)

\* The PartLevels state a handler works on; exc is set when the handler has
\* raised an exception, after which none of its remaining statements run.
Cur == [works_cache |-> works_cache, parts |-> parts, works_queue |-> works_queue,
        work_listing |-> work_listing, top |-> top, top_works |-> top_works,
        trackback |-> trackback, partof |-> partof, orphan_tracks |-> orphan_tracks,
        requests |-> requests, inflight |-> inflight, cwp_error |-> cwp_error,
        cwp_warning |-> cwp_warning, assembled |-> assembled,
        finalized |-> finalized, built |-> built, cwp_tags |-> cwp_tags, exc |-> FALSE]

Commit(st) ==
    /\ works_cache' = st.works_cache
    /\ parts' = st.parts
    /\ works_queue' = st.works_queue
    /\ work_listing' = st.work_listing
    /\ top' = st.top
    /\ top_works' = st.top_works
    /\ trackback' = st.trackback
    /\ partof' = st.partof
    /\ orphan_tracks' = st.orphan_tracks
    /\ requests' = st.requests
    /\ inflight' = st.inflight
    /\ cwp_error' = st.cwp_error
    /\ cwp_warning' = st.cwp_warning
    /\ assembled' = st.assembled
    /\ finalized' = st.finalized
    /\ built' = st.built
    /\ cwp_tags' = st.cwp_tags
    /\ aborted' = (aborted \/ st.exc)
    /\ UNCHANGED <<args, result, collection, xmlws, confirm, update_list>>

\* ------------------------------------------------------------- WorksQueue
\* WorksQueue.append: True iff the name was not queued yet
WorksQueue_append_always_new(queue, name, value) ==
    [queue |-> [queue EXCEPT ![name] = Append(@, value)], new |-> TRUE]

WorksQueue_append_front(queue, name, value) ==
    IF queue[name] # <<>>
    THEN [queue |-> [queue EXCEPT ![name] = <<value>> \o @], new |-> FALSE]
    ELSE [queue |-> [queue EXCEPT ![name] = <<value>>], new |-> TRUE]

WorksQueue_append(queue, name, value) ==
    IF queue[name] # <<>>
    THEN [queue |-> [queue EXCEPT ![name] = Append(@, value)], new |-> FALSE]
    ELSE [queue |-> [queue EXCEPT ![name] = <<value>>], new |-> TRUE]

WorksQueue_remove_keep(queue, name) == [queue |-> queue, value |-> queue[name]]

WorksQueue_remove_head(queue, name) ==
    [queue |-> [queue EXCEPT ![name] = Tail(@)], value |-> <<Head(queue[name])>>]

\* WorksQueue.remove: the waiters of the name, which leaves the queue
WorksQueue_remove(queue, name) ==
    [queue |-> [queue EXCEPT ![name] = <<>>], value |-> queue[name]]

\* ------------------------------------------------- counter of the release
album_add_request(st, al) == [st EXCEPT !.requests[al] = @ + 1]

album_remove_request(st, al) == [st EXCEPT !.requests[al] = @ - 1]

\* the request handed to the web service: mblogin is set only when alias
\* user tags are configured and user_data is asked for
Request(workId, tries, user_data) ==
    [workId |-> workId, tries |-> tries, login |-> options.user_tags /\ user_data]

work_add_track(st, track, workId, tries, user_data) ==
    LET r == WorksQueue_append(st.works_queue, workId, track)
    IN [album_add_request(st, track[1]) EXCEPT
           !.works_queue = r.queue,
           !.inflight = IF r.new
                        THEN @ (+) SetToBag({Request(workId, tries, user_data)})
                        ELSE @]

RECURSIVE AddEachWork(_, _, _)
AddEachWork(st, track, ids) ==
    IF ids = <<>> THEN st
    ELSE AddEachWork(work_add_track(st, track, ids[1], 0, TRUE), track, Tail(ids))

\* work_not_in_cache, once the node of the key exists: a key known to be
\* top-level is listed as such, any other key has each of its ids looked up
TopOrLookUp(st, track, wid) ==
    IF st.parts[wid].no_parent /\ (options.use_cache \/ cwp_use_sk)
    THEN [st EXCEPT !.top_works[track] = wid,
                    !.top[track[1]] = AppendNew(@, wid)]
    ELSE AddEachWork(st, track, wid)

work_not_in_cache(st, track, wid) ==
    TopOrLookUp([st EXCEPT !.parts = Put(@, wid, PartOf(@, wid))], track, wid)

\* check_cache: walks the cached parents upwards, listing each for the album;
\* returns the first ancestor that has no cached parent
RECURSIVE check_cache(_, _, _)
check_cache(st, al, wid) ==
    LET parentId == st.works_cache[wid]
    IN IF parentId \in DOMAIN st.works_cache
       THEN check_cache([st EXCEPT !.work_listing[al] = AppendNew(@, parentId)],
                        al, parentId)
       ELSE [st |-> [st EXCEPT !.work_listing[al] = AppendNew(@, parentId)],
             not_in_cache |-> <<parentId>>]

\* ------------------------------------------------- end-of-album processing
\* process_album, the top-level work found for a listed key
AddTop(st, al, topId) == [st EXCEPT !.top[al] = AppendNew(@, topId)]

\* process_album, a listed key with a cached parent: the parent is a top-level
\* work of the album if it is marked as having no parent
TopIfNoParent(st, al, parentIds) ==
    IF st.parts[parentIds].no_parent THEN AddTop(st, al, parentIds) ELSE st

\* process_album, a listed key with a cached parent is entered in the inverse
\* listing of the album
ListChild(st, al, workId, parentIds) ==
    TopIfNoParent(
        [st EXCEPT !.partof[al] = Put(@, parentIds,
                                      IF parentIds \in DOMAIN @
                                      THEN AppendNew(@[parentIds], workId)
                                      ELSE <<workId>>),
                   !.parts = Put(@, parentIds, PartOf(@, parentIds))],
        al, parentIds)

ListCachedOnly(st, al, workId) ==
    IF workId \in DOMAIN st.parts /\ workId \in DOMAIN st.works_cache
    THEN ListChild(st, al, workId, st.works_cache[workId])
    ELSE st

\* process_album, the body of the loop over self.work_listing[album]
ListWork(st, al, workId) ==
    IF workId \notin DOMAIN st.parts
    THEN st
    ELSE IF workId \in DOMAIN st.works_cache
         THEN ListChild(st, al, workId, st.works_cache[workId])
         ELSE AddTop(st, al, workId)

\* process_album, the loop over self.work_listing[album]: builds the inverse
\* listing and collects the top-level works of the album
RECURSIVE ListTops(_, _, _)
ListTops(st, al, listing) ==
    IF listing = <<>> THEN st
    ELSE ListTops(ListWork(st, al, listing[1]), al, Tail(listing))

\* a node of self.trackback[album]: 'id', 'meta' (the tracks of the key),
\* 'children' (<<>> when the node has no such entry), 'height' and 'depth'
\* (-1 until level_calc has set them)
NoNode == [id |-> FALSE, meta |-> <<>>, children |-> <<>>, height |-> -1, depth |-> -1]

\* self.trackback[album][k] (reading a missing key of the defaultdict yields {})
NodeOf(tb, k) == IF k \in DOMAIN tb THEN tb[k] ELSE NoNode

\* the read of self.trackback[album][k], which enters a missing key
Touch(tb, k) == Put(tb, k, NodeOf(tb, k))

\* self.trackback[album] as add_work_info has filled it: 'id' and 'meta'
TrackNodes(tbAl) == [k \in DOMAIN tbAl |-> [NoNode EXCEPT !.id = TRUE, !.meta = tbAl[k]]]

\* dict equality of two nodes: nodes with an 'id' are equal only to
\* themselves, nodes without one are equal when their entries are
SameNode(tb, e, c) == e = c \/ (~NodeOf(tb, c).id /\ NodeOf(tb, e) = NodeOf(tb, c))

\* child in self.trackback[album][parentId]['children']
HasChild(tb, parentId, child) ==
    \E i \in DOMAIN tb[parentId].children : SameNode(tb, tb[parentId].children[i], child)

append_trackback(tb, parentId, child) ==
    IF parentId \in DOMAIN tb
    THEN IF HasChild(tb, parentId, child)
         THEN tb
         ELSE [tb EXCEPT ![parentId].children = Append(@, child)]
    ELSE Put(tb, parentId, [NoNode EXCEPT !.id = TRUE, !.children = <<child>>])

RECURSIVE create_trackback(_, _, _)
RECURSIVE TrackbackChildren(_, _, _, _)

\* create_trackback, the body of "for child in self.partof[album][parentId]"
AppendChild(po, tb, parentId, child) ==
    IF child \in DOMAIN po
    THEN append_trackback(create_trackback(po, tb, child), parentId, child)
    ELSE append_trackback(Touch(tb, child), parentId, child)

TrackbackChildren(po, tb, parentId, children) ==
    IF children = <<>> THEN tb
    ELSE TrackbackChildren(po, AppendChild(po, tb, parentId, children[1]),
                           parentId, Tail(children))

\* create_trackback: po is self.partof[album], tb is self.trackback[album]
create_trackback(po, tb, parentId) ==
    IF parentId \in DOMAIN po
    THEN Touch(TrackbackChildren(po, tb, parentId, po[parentId]), parentId)
    ELSE Touch(tb, parentId)

Max(a, b) == IF a >= b THEN a ELSE b

RECURSIVE level_calc(_, _, _)
RECURSIVE LevelChildren(_, _, _, _, _)

NextChild_last(tb, k, children, height, max_depth) ==
    LevelChildren(tb, k, Tail(children), height, tb[children[1]].depth + 1)

\* level_calc, the body of "for child in trackback['children']" after the
\* recursive call: max_depth = max(depth, max_depth)
NextChild(tb, k, children, height, max_depth) ==
    LevelChildren(tb, k, Tail(children), height,
                  Max(tb[children[1]].depth + 1, max_depth))

\* level_calc, "for child in trackback['children']"
LevelChildren(tb, k, children, height, max_depth) ==
    IF children = <<>> THEN [tb EXCEPT ![k].depth = max_depth]
    ELSE NextChild(level_calc(tb, children[1], height), k, children, height, max_depth)

\* level_calc: sets 'height' and 'depth' of the node and of all below it
level_calc(tb, k, height) ==
    IF tb[k].children = <<>>
    THEN [tb EXCEPT ![k].height = height, ![k].depth = 0]
    ELSE LevelChildren([tb EXCEPT ![k].height = height], k, tb[k].children, height + 1, 0)

\* the keys of the nodes of the tree below and including k
RECURSIVE TreeKeys(_, _)
TreeKeys(tb, k) == {k} \cup UNION {TreeKeys(tb, tb[k].children[i]) : i \in DOMAIN tb[k].children}

\* the tree of topId as level_calc has left it
TreeOf(tb, topId) == [top |-> topId, tree |-> [k \in TreeKeys(tb, topId) |-> tb[k]]]

\* process_album, single_work_album
single_work_album(tops) == IF Len(tops) > 1 THEN 0 ELSE 1

ref_level_top(work_part_levels, single) == work_part_levels

\* process_album, "determine the level which will be the principal 'work'
\* level"
ref_level(work_part_levels, single) ==
    IF work_part_levels >= 3 THEN work_part_levels - single ELSE work_part_levels

\* process_album, the tree of topId with top_info and the levels handed to
\* process_trackback: work_part_levels is what level_calc returns, the depth
\* of the top
TopTree(tb, topId, single) ==
    [top |-> topId, tree |-> TreeOf(tb, topId).tree,
     levels |-> tb[topId].depth, single |-> single,
     ref_level |-> ref_level(tb[topId].depth, single),
     ref_height |-> tb[topId].depth - ref_level(tb[topId].depth, single)]

\* the work tags of a track that process_album has not reached: no
\* ~cwp_workid_<n>, no ~cwp_part_levels, no ~cwp_workid_top
NoTags == [workid |-> <<>>, part_levels |-> -1, top |-> <<>>]

\* the answer None of process_trackback and process_trackback_children
NoAnswer(tags) == [ok |-> FALSE, id |-> <<>>, tracks |-> <<>>, tags |-> tags, exc |-> FALSE]

\* the (track, height) pairs of the tracks of a node
RECURSIVE TrackHeights(_, _)
TrackHeights(meta, height) ==
    IF meta = <<>> THEN <<>>
    ELSE <<<<meta[1], height>>>> \o TrackHeights(Tail(meta), height)

\* process_trackback, "for track, album in trackback['meta']": the key of the
\* node becomes ~cwp_workid_0 of each of its tracks, the height of the node
\* their ~cwp_part_levels, the top work their ~cwp_workid_top
WriteLeaf(tb, k, topId, tags, tracks) ==
    [ok |-> TRUE, id |-> k, exc |-> FALSE,
     tracks |-> tracks \o TrackHeights(tb[k].meta, tb[k].height),
     tags |-> [t \in Tracks |->
                  IF t \in Range(tb[k].meta)
                  THEN [workid |-> Put(tags[t].workid, 0, k),
                        part_levels |-> tb[k].height,
                        top |-> topId]
                  ELSE tags[t]]]

\* process_trackback, a node with tracks that has children as well: the
\* children are processed first; tracks = child_response[1] raises TypeError
\* when they gave no answer
LeafAfterChildren(tb, k, topId, child_response) ==
    IF child_response.exc \/ ~child_response.ok
    THEN [child_response EXCEPT !.exc = TRUE, !.ok = FALSE]
    ELSE WriteLeaf(tb, k, topId, child_response.tags, child_response.tracks)

\* the height a child has answered with for a track
TrackHeight(child_tracks, t) ==
    child_tracks[CHOOSE i \in DOMAIN child_tracks : child_tracks[i][1] = t][2]

\* set_metadata for the tracks a child has answered with: the key of the
\* parent becomes ~cwp_workid_<part_level>, part_level = track_height - height
SetLevels(tags, child_tracks, parentId, height) ==
    [t \in Tracks |->
        IF \E i \in DOMAIN child_tracks : child_tracks[i][1] = t
        THEN [tags[t] EXCEPT !.workid =
                 Put(@, TrackHeight(child_tracks, t) - height, parentId)]
        ELSE tags[t]]

\* process_trackback_children, the body of "for child in
\* trackback['children']" once the child has answered
Absorb(tb, k, acc, answer) ==
    IF answer.exc THEN [acc EXCEPT !.exc = TRUE, !.tags = answer.tags]
    ELSE IF ~answer.ok THEN [acc EXCEPT !.tags = answer.tags]
    ELSE [acc EXCEPT !.tags = SetLevels(answer.tags, answer.tracks, k, tb[k].height),
                     !.tracks = @ \o answer.tracks]

RECURSIVE process_trackback(_, _, _, _)
RECURSIVE ChildLoop(_, _, _, _, _)

\* process_trackback_children, "for child in trackback['children']"
ChildLoop(tb, k, topId, children, acc) ==
    IF children = <<>> \/ acc.exc THEN acc
    ELSE ChildLoop(tb, k, topId, Tail(children),
                   Absorb(tb, k, acc, process_trackback(tb, children[1], topId, acc.tags)))

\* process_trackback_children, the response: the key of the node and the
\* tracks below it, None if there are none
ChildrenResponse(k, acc) ==
    IF acc.exc \/ acc.tracks = <<>>
    THEN [NoAnswer(acc.tags) EXCEPT !.exc = acc.exc]
    ELSE [ok |-> TRUE, id |-> k, tracks |-> acc.tracks, tags |-> acc.tags, exc |-> FALSE]

process_trackback_children(tb, k, topId, tags) ==
    IF tb[k].id /\ tb[k].depth >= 0 /\ tb[k].height >= 0
    THEN ChildrenResponse(k, ChildLoop(tb, k, topId, tb[k].children,
                                       [tracks |-> <<>>, tags |-> tags, exc |-> FALSE]))
    ELSE NoAnswer(tags)

\* process_trackback: a node that has tracks of the release, or no children,
\* is a bottom-level work; any other node hands on to its children
process_trackback(tb, k, topId, tags) ==
    IF tb[k].meta # <<>> \/ tb[k].children = <<>>
    THEN IF tb[k].meta # <<>> /\ tb[k].id /\ tb[k].depth >= 0 /\ tb[k].height >= 0
         THEN IF tb[k].depth # 0
              THEN LeafAfterChildren(tb, k, topId,
                                     process_trackback_children(tb, k, topId, tags))
              ELSE WriteLeaf(tb, k, topId, tags, <<>>)
         ELSE NoAnswer(tags)
    ELSE process_trackback_children(tb, k, topId, tags)

\* process_album, "for topId in self.top[album]": the trees are built and
\* levelled one after the other in the trackback of the album, and the work
\* tags of the tracks of each are written
RECURSIVE TreeLoop(_, _, _, _)
AfterTrackback(po, tb, tops, acc, answer) ==
    TreeLoop(po, tb, Tail(tops),
             [trees |-> Append(acc.trees, TopTree(tb, tops[1], acc.single)),
              tags |-> answer.tags, exc |-> answer.exc, single |-> acc.single])

AfterLevels(po, tb, tops, acc) ==
    AfterTrackback(po, tb, tops, acc, process_trackback(tb, tops[1], tops[1], acc.tags))

TreeLoop(po, tb, tops, acc) ==
    IF tops = <<>> \/ acc.exc THEN acc
    ELSE AfterLevels(po, level_calc(create_trackback(po, tb, tops[1]), tops[1], 0),
                     tops, acc)

\* process_album, the end: the trackback of the album is cleared, unless an
\* exception has ended the callback before
TidyUp(st, al, acc) ==
    IF acc.exc
    THEN [st EXCEPT !.built[al] = acc.trees, !.cwp_tags = acc.tags, !.exc = TRUE]
    ELSE [st EXCEPT !.built[al] = acc.trees, !.cwp_tags = acc.tags,
                    !.trackback[al] = <<>>,
                    !.assembled[al] = @ + 1]

\* process_album, after the loop over the work listing: the trees of the
\* top-level works are built and walked
BuildTrees(st, al) ==
    TidyUp(st, al, TreeLoop(st.partof[al], TrackNodes(st.trackback[al]), st.top[al],
                            [trees |-> <<>>, tags |-> st.cwp_tags, exc |-> FALSE,
                             single |-> single_work_album(st.top[al])]))

\* process_album: the hierarchy of the album is assembled from the cache and
\* the trackback of the album is cleared afterwards
process_album(st, al) == BuildTrees(ListTops(st, al, st.work_listing[al]), al)

\* ------------------------------------------------- initial track processing
RECURSIVE Titles(_)
Titles(ids) == IF ids = <<>> THEN <<>> ELSE <<Title[ids[1]]>> \o Titles(Tail(ids))

RECURSIVE LookUpEach(_, _, _)
LookUpEach(st, track, keys) ==
    IF keys = <<>> THEN st
    ELSE LET k == keys[1]
             st1 == IF ~options.use_cache /\ k \in DOMAIN st.works_cache
                    THEN [st EXCEPT !.works_cache = Del(@, k)]
                    ELSE st
         IN LookUpEach(work_not_in_cache(st1, track, k), track, Tail(keys))

\* add_work_info, a work of the track is presented as partial recording
IsPartial(w) == cwp_partial /\ w \in PartialWorks

\* add_work_info, workId_list: the recording id stands for each work the
\* track is a partial recording of
RECURSIVE workId_list(_, _)
workId_list(track, workIds) ==
    IF workIds = <<>> THEN <<>>
    ELSE <<IF IsPartial(workIds[1]) THEN Recording(track) ELSE workIds[1]>>
             \o workId_list(track, Tail(workIds))

\* add_work_info, workId_list_p: the works the track is a partial recording of
workId_list_p(workIds) == SelectSeq(workIds, IsPartial)

\* add_work_info, parent_list: the same, each once
parent_list(workIds) == Dedup(workId_list_p(workIds))

\* add_work_info, the works of a partial recording are cached as parents of
\* the key; works_cache[key] and parts[key]['parent'] are one list object, so
\* each += extends both
CachePartial(st, workId_tuple, parents, workId_tuple_p, work_list_p, al) ==
    IF parents = <<>> THEN st
    ELSE [st EXCEPT
             !.works_cache = Put(@, workId_tuple,
                                 IF workId_tuple \in DOMAIN @
                                 THEN @[workId_tuple] \o parents \o parents
                                 ELSE parents),
             !.parts = Put(Put(@, workId_tuple,
                               [@[workId_tuple] EXCEPT !.parent =
                                    IF workId_tuple \in DOMAIN st.works_cache
                                    THEN st.works_cache[workId_tuple] \o parents \o parents
                                    ELSE parents]),
                           workId_tuple_p,
                           [PartOf(@, workId_tuple_p) EXCEPT !.name = work_list_p]),
             !.work_listing[al] = AppendNew(@, workId_tuple_p)]

\* add_work_info, the names of the works are held for the key of the track
NameWorks(st, workId_tuple, work_list) ==
    IF workId_tuple \notin DOMAIN st.parts \/ ~options.use_cache
    THEN [st EXCEPT !.parts = Put(@, workId_tuple,
                                  [PartOf(@, workId_tuple) EXCEPT !.name = work_list])]
    ELSE st

\* add_work_info, a key new to self.parts, or any key when the cache is not
\* in use: names and partial-recording parents are held for the key
NameAndCache(st, al, workId_tuple, workIds) ==
    IF workId_tuple \notin DOMAIN st.parts \/ ~options.use_cache
    THEN CachePartial(NameWorks(st, workId_tuple, Dedup(Titles(workIds))),
                      workId_tuple, parent_list(workIds), workId_list_p(workIds),
                      Dedup(Titles(workId_list_p(workIds))), al)
    ELSE st

\* add_work_info, the track is entered in the trackback of the key
TrackBack(st, track, workId_tuple) ==
    [st EXCEPT !.trackback[track[1]] =
                   Put(@, workId_tuple,
                       IF workId_tuple \in DOMAIN @
                       THEN AppendNew(@[workId_tuple], track)
                       ELSE <<track>>)]

\* add_work_info, the keys check_cache found without cached parent
LookUpMissing(cc, track) == LookUpEach(cc.st, track, cc.not_in_cache)

\* add_work_info, the cached ancestors of the key are listed and the first
\* key without cached parent is looked up
FromCache(st, track, workId_tuple, workId_tuple_p) ==
    IF workId_tuple \in DOMAIN st.works_cache /\ (options.use_cache \/ workId_tuple_p # <<>>)
    THEN LookUpMissing(check_cache(st, track[1], workId_tuple), track)
    ELSE LookUpEach(st, track,
                    <<IF workId_tuple_p # <<>> THEN workId_tuple_p ELSE workId_tuple>>)

\* the part of add_work_info run for a track that has works, once the key of
\* the track is formed
TrackWithKey(st, track, workIds, workId_tuple) ==
    FromCache(
        TrackBack(
            NameAndCache([st EXCEPT !.work_listing[track[1]] = AppendNew(@, workId_tuple)],
                         track[1], workId_tuple, workIds),
            track, workId_tuple),
        track, workId_tuple, workId_list_p(workIds))

\* the part of add_work_info run for a track that has works
TrackWithWorks(st, track, workIds) ==
    TrackWithKey(st, track, workIds, workId_list(track, workIds))

\* the part of add_work_info run for a track without work relation
TrackWithoutWorks(st, track) ==
    [st EXCEPT !.cwp_warning[track] = append_tag(@, WARN_NO_WORKS),
               !.orphan_tracks[track[1]] = AppendNew(@, track)]

\* the check for the last track that ends add_work_info
LastTrackCheck(st, track) ==
    IF st.requests[track[1]] = 0 /\ track[2] = TotalTracks(track[1])
    THEN process_album(st, track[1])
    ELSE st

\* the work ids a request is outstanding for
Asked(requested) == {r.workId : r \in BagToSet(requested)}

\* no lookup was answered by the last callback
NoCall == [workId |-> "", tries |-> 0, login |-> FALSE, code |-> 0, reply |-> "ok",
           tuples |-> <<>>]

\* add_work_info: the host delivers the next track of a release
add_work_info(al) ==
    /\ seen[al] < TotalTracks(al)
    /\ LET track == <<al, seen[al] + 1>>
           workIds == library[track]
           st1 == IF workIds # <<>>
                  THEN TrackWithWorks(Cur, track, workIds)
                  ELSE TrackWithoutWorks(Cur, track)
       IN /\ Commit(LastTrackCheck(st1, track))
          /\ seen' = [seen EXCEPT ![al] = @ + 1]
          /\ last' = NoCall
          /\ failed_works' = failed_works \ Asked(inflight')
          /\ UNCHANGED <<options, library, auth_failed, loads>>

\* ------------------------------------------------------- works processing
RequeueOnceMore(st, track, workId, tries, error) ==
    LET al == track[1]
        st1 == IF tries <= options.retries
               THEN work_add_track(st, track, workId, tries + 1, error # AUTH_ERROR)
               ELSE st
    IN album_remove_request(st1, al)

\* work_process, error branch, for one waiting (track, album) pair
RequeueOrGiveUp(st, track, workId, tries, error) ==
    LET al == track[1]
        st1 == IF tries < options.retries
               THEN IF error = AUTH_ERROR
                    THEN work_add_track(
                             [st EXCEPT !.cwp_error[track] = append_tag(@, ERR_AUTH)],
                             track, workId, tries + 1, FALSE)
                    ELSE work_add_track(st, track, workId, tries + 1, TRUE)
               ELSE IF options.log_error
                    THEN [st EXCEPT !.cwp_error[track] = append_tag(@, ERR_RETRIES)]
                    ELSE st
    IN album_remove_request(st1, al)

RECURSIVE ErrorLoop(_, _, _, _, _)
ErrorLoop(st, tuples, workId, tries, error) ==
    IF tuples = <<>> THEN st
    ELSE ErrorLoop(RequeueOrGiveUp(st, tuples[1], workId, tries, error),
                   Tail(tuples), workId, tries, error)

\* the keys of the album's work listing that hold the work id
RECURSIVE WidList(_, _)
WidList(listing, workId) ==
    IF listing = <<>> THEN <<>>
    ELSE LET rest == WidList(SubSeq(listing, 1, Len(listing) - 1), workId)
             w == listing[Len(listing)]
         IN IF workId \in Range(w) THEN AppendNew(rest, w) ELSE rest

\* list.index(x); 0 stands for the ValueError of a missing item
IndexOf(s, x) == IF x \in Range(s)
                 THEN CHOOSE i \in DOMAIN s : s[i] = x /\ \A j \in 1..(i - 1) : s[j] # x
                 ELSE 0

RECURSIVE QueueEach(_, _, _)
QueueEach(new_queue, track, ids) ==
    IF ids = <<>> THEN new_queue
    ELSE QueueEach(Append(new_queue, <<track, <<ids[1]>>>>), track, Tail(ids))

\* work_process_metadata: the tags, key and dates of the reply replace those
\* held for the key; a reply without the work element leaves an error tag on
\* the track and yields None
work_process_metadata(st, track, workId, wid, reply) ==
    IF reply = "ok"
    THEN [st EXCEPT !.parts = Put(@, wid, [PartOf(@, wid) EXCEPT !.meta = <<workId>>])]
    ELSE IF reply = "no_work"
         THEN [st EXCEPT !.cwp_error[track] = append_tag(@, ERR_FORMAT)]
         ELSE st

\* work_process, the parents found for wid are recorded: new key
RecordParents(st, al, wid, parentIds, parents) ==
    LET p1 == Put(st.parts, wid, [PartOf(st.parts, wid) EXCEPT !.parent = parentIds])
        p2 == Put(p1, parentIds, [PartOf(p1, parentIds) EXCEPT !.name = parents])
    IN [st EXCEPT !.works_cache = Put(@, wid, parentIds),
                  !.parts = p2,
                  !.work_listing[al] = Append(@, parentIds)]

\* the node of prev_ids becomes the node of new_ids, under the merged names
MoveNode(p, prev_ids, new_ids, name) ==
    Put(Del(Put(p, new_ids, p[prev_ids]), prev_ids), new_ids,
        [PartOf(Del(Put(p, new_ids, p[prev_ids]), prev_ids), new_ids) EXCEPT !.name = name])

\* work_process, the merged key replaces the cached parent key in the work
\* listing of the album, at the index list.index found, and in the node table
ReplaceKey(st, al, index, prev_ids, new_ids, name, parentIds) ==
    IF index = 0
    THEN [st |-> [st EXCEPT !.exc = TRUE], parentIds |-> parentIds]
    ELSE [st |-> [st EXCEPT !.work_listing[al][index] = new_ids,
                            !.parts = MoveNode(@, prev_ids, new_ids, name)],
          parentIds |-> new_ids]

\* work_process, the cached parent key and the new ids are merged into one key
MergeKeys(st, al, prev_ids, prev_name, parentIds, parents) ==
    ReplaceKey(st, al, IndexOf(st.work_listing[al], prev_ids), prev_ids,
               add_list_uniquely(prev_ids, parentIds),
               add_list_uniquely(prev_name, parents), parentIds)

\* work_process, the parents found for wid differ from those cached: the new
\* ids are added to the cache entry and to the parent of wid, and the cached
\* parent key and the new ids are merged into one key
MergeParents(st, al, wid, parentIds, parents) ==
    MergeKeys([st EXCEPT !.works_cache[wid] = add_list_uniquely(@, parentIds),
                         !.parts = [Put(@, st.works_cache[wid],
                                        PartOf(@, st.works_cache[wid]))
                                       EXCEPT ![wid].parent = add_list_uniquely(@, parentIds)]],
              al, st.works_cache[wid], PartOf(st.parts, st.works_cache[wid]).name,
              parentIds, parents)

\* work_process, duplicates are dropped from the names of the parent key and
\* from the parents held for wid
DropDuplicates(st, wid, pk) ==
    [st EXCEPT !.parts = Put(Put(@, pk, [PartOf(@, pk) EXCEPT !.name = Dedup(@)]),
                             wid, [PartOf(Put(@, pk, PartOf(@, pk)), wid)
                                      EXCEPT !.parent = Dedup(@)]),
               !.works_cache[wid] = Dedup(@)]

\* work_process, the key check_cache found without cached parent is queued
QueueMissing(cc, nq, track) ==
    [st |-> cc.st, nq |-> Append(nq, <<track, cc.not_in_cache[1]>>)]

\* work_process, the lookups of the parent key are put in new_queue
QueueParents(st, nq, track, pk) ==
    IF pk \in DOMAIN st.works_cache /\ options.use_cache
    THEN QueueMissing(check_cache(st, track[1], pk), nq, track)
    ELSE [st |-> IF ~options.use_cache /\ pk \in DOMAIN st.works_cache
                 THEN [st EXCEPT !.works_cache = Del(@, pk)]
                 ELSE st,
          nq |-> QueueEach(nq, track, pk)]

\* work_process, what follows the recording of the parents in m
AfterRecord(m, nq, track, wid) ==
    IF m.st.exc
    THEN [st |-> m.st, nq |-> nq]
    ELSE QueueParents(DropDuplicates(m.st, wid, m.parentIds), nq, track, m.parentIds)

\* work_process, the body of "for wid in wid_list" for a reply that names
\* parents; nq is the new_queue built so far
WithParents(st, nq, track, wid, found, parents) ==
    AfterRecord(IF wid \in DOMAIN st.works_cache
                THEN IF Range(st.works_cache[wid]) # Range(found)
                     THEN MergeParents(st, track[1], wid, found, parents)
                     ELSE [st |-> st, parentIds |-> found]
                ELSE [st |-> RecordParents(st, track[1], wid, found, parents),
                      parentIds |-> found],
                nq, track, wid)

\* work_process, the body of "for wid in wid_list" for a reply without parents
WithoutParents(st, track, wid) ==
    [st EXCEPT !.parts[wid].no_parent = TRUE,
               !.top_works[track] = wid,
               !.top[track[1]] = AppendNew(@, wid)]

\* work_process, the body of "for wid in wid_list" after work_process_metadata:
\* a reply that is not in the correct format has yielded None, and the
\* subscript of None raises TypeError
UseMetaList(st, nq, track, workId, wid, reply) ==
    IF reply # "ok"
    THEN [st |-> [st EXCEPT !.exc = TRUE], nq |-> nq]
    ELSE IF Dedup(Catalogue[workId]) # <<>>
         THEN WithParents(st, nq, track, wid, Dedup(Catalogue[workId]),
                          Titles(Catalogue[workId]))
         ELSE [st |-> WithoutParents(st, track, wid), nq |-> nq]

\* work_process, "for wid in wid_list" for one (track, album) pair
RECURSIVE WidLoop(_, _, _, _, _, _)
NextWid(r, track, workId, wids, reply) == WidLoop(r.st, r.nq, track, workId, wids, reply)

WidLoop(st, nq, track, workId, wids, reply) ==
    IF wids = <<>> \/ st.exc THEN [st |-> st, nq |-> nq]
    ELSE NextWid(UseMetaList(work_process_metadata(st, track, workId, wids[1], reply),
                             nq, track, workId, wids[1], reply),
                 track, workId, Tail(wids), reply)

\* work_process, "for tup_num, (track, album) in enumerate(tuples)"
RECURSIVE TupleLoop(_, _, _, _, _)
NextTuple(r, track, tuples, workId, reply) ==
    TupleLoop(IF r.st.exc THEN r.st ELSE album_remove_request(r.st, track[1]),
              r.nq, tuples, workId, reply)

TupleLoop(st, nq, tuples, workId, reply) ==
    IF tuples = <<>> \/ st.exc THEN [st |-> st, nq |-> nq]
    ELSE NextTuple(WidLoop(st, nq, tuples[1], workId,
                           WidList(st.work_listing[tuples[1][1]], workId), reply),
                   tuples[1], Tail(tuples), workId, reply)

\* work_process, "for queued_item in new_queue"
RECURSIVE NewQueueLoop(_, _)
NewQueueLoop(st, nq) ==
    IF nq = <<>> THEN st
    ELSE NewQueueLoop(work_not_in_cache(st, nq[1][1], nq[1][2]), Tail(nq))

\* work_process, the closing test, made for the album of the last pair only
Finalize(st, al) == IF st.exc THEN st ELSE [st EXCEPT !.finalized[al] = TRUE]

FinishAlbum(st, al) ==
    IF st.requests[al] = 0
    THEN Finalize(process_album(st, al), al)
    ELSE st

\* work_process, what follows the loop over the waiters
AfterTuples(r, tuples) ==
    IF tuples = <<>> \/ r.st.exc THEN r.st
    ELSE FinishAlbum(NewQueueLoop(r.st, r.nq), tuples[Len(tuples)][1])

\* work_process for a reply without error
ReplyLoop(st, tuples, workId, reply) ==
    AfterTuples(TupleLoop(st, <<>>, tuples, workId, reply), tuples)

\* work_process: the web service answers one of the lookups
work_process(req, error, reply) ==
    /\ BagIn(req, inflight)
    /\ error # 0 => reply = "ok"
    /\ LET q == WorksQueue_remove(works_queue, req.workId)
           st0 == [Cur EXCEPT !.inflight = @ (-) SetToBag({req}),
                              !.works_queue = q.queue]
           st1 == IF error # 0
                  THEN ErrorLoop(st0, q.value, req.workId, req.tries, error)
                  ELSE ReplyLoop(st0, q.value, req.workId, reply)
       IN /\ Commit(st1)
          /\ last' = [workId |-> req.workId, tries |-> req.tries, login |-> req.login,
                      code |-> error, reply |-> reply, tuples |-> q.value]
    /\ auth_failed' = IF error = AUTH_ERROR /\ req.tries < options.retries
                      THEN auth_failed \cup {req.workId}
                      ELSE IF error # 0 /\ req.tries < options.retries
                           THEN auth_failed
                           ELSE auth_failed \ {req.workId}
    /\ failed_works' = (IF error # 0 /\ req.tries >= options.retries
                        THEN failed_works \cup {req.workId}
                        ELSE failed_works) \ Asked(inflight')
    /\ UNCHANGED <<options, library, seen, loads>>

\* the host loads a release again once all of its tracks have been delivered
\* and none of its requests is outstanding: the tracks are delivered anew to
\* add_work_info as new Track objects with fresh metadata, which take the
\* places of the objects of the earlier load; the PartLevels instance and the
\* Album object stay as they are
Reload(al) ==
    /\ seen[al] = TotalTracks(al)
    /\ requests[al] = 0
    /\ loads["A"] + loads["B"] < MaxReloads
    /\ seen' = [seen EXCEPT ![al] = 0]
    /\ loads' = [loads EXCEPT ![al] = @ + 1]
    /\ cwp_error' = [t \in Tracks |-> IF t[1] = al THEN <<>> ELSE cwp_error[t]]
    /\ cwp_warning' = [t \in Tracks |-> IF t[1] = al THEN <<>> ELSE cwp_warning[t]]
    /\ top_works' = [t \in Tracks |-> IF t[1] = al THEN <<>> ELSE top_works[t]]
    /\ cwp_tags' = [t \in Tracks |-> IF t[1] = al THEN NoTags ELSE cwp_tags[t]]
    /\ finalized' = [finalized EXCEPT ![al] = FALSE]
    /\ last' = NoCall
    /\ UNCHANGED <<options, library, works_cache, parts, works_queue, work_listing,
                   top, trackback, partof, orphan_tracks, requests, inflight,
                   assembled, built, aborted, auth_failed, failed_works, nfaults,
                   args, result, collection, xmlws, confirm, update_list>>

\* ------------------------------------------------------- string functions
\* A string is the sequence of its characters.

\* s[a:b] of Python for 0 <= a, with b cut to the length of s
Slice(s, a, b) == IF a >= b THEN <<>> ELSE SubSeq(s, a + 1, IF b > Len(s) THEN Len(s) ELSE b)

\* longest_common_substring, the loop over y for one x: row holds
\* m[x][0..y-1], prev holds m[x-1], best the pair (longest, x_longest)
RECURSIVE LcsRow(_, _, _, _, _, _, _)
LcsRow(s1, s2, x, y, prev, row, best) ==
    IF y > Len(s2) THEN [row |-> row, best |-> best]
    ELSE IF s1[x] = s2[y]
         THEN LcsRow(s1, s2, x, y + 1, prev, Append(row, prev[y] + 1),
                     IF prev[y] + 1 > best.longest
                     THEN [longest |-> prev[y] + 1, x_longest |-> x] ELSE best)
         ELSE LcsRow(s1, s2, x, y + 1, prev, Append(row, 0), best)

\* longest_common_substring, the loop over x (no later row changes the pair
\* once the whole of s2 is matched)
RECURSIVE LcsRows(_, _, _, _)
LcsNextRow(s1, s2, x, done) == LcsRows(s1, s2, x + 1, done)
LcsRows(s1, s2, x, acc) ==
    IF acc.best.longest = Len(s2) \/ x > Len(s1) THEN acc.best
    ELSE LcsNextRow(s1, s2, x, LcsRow(s1, s2, x, 1, acc.row, <<0>>, acc.best))

\* longest_common_substring(s1, s2): 'string', 'start' and 'length' of the
\* result ('length' is x_longest in the code)
LcsAnswer(s1, best) ==
    [string |-> Slice(s1, best.x_longest - best.longest, best.x_longest),
     start |-> best.x_longest - best.longest, length |-> best.x_longest]
longest_common_substring(s1, s2) ==
    LcsAnswer(s1, LcsRows(s1, s2, 1, [row |-> [y \in 1..(Len(s2) + 1) |-> 0],
                                      best |-> [longest |-> 0, x_longest |-> 0]]))

\* sum([len(x) for x in multi_list])
RECURSIVE list_sum(_)
list_sum(multi_list) ==
    IF multi_list = <<>> THEN 0 ELSE Len(multi_list[1]) + list_sum(Tail(multi_list))

\* turbo_lcs: the threshold of the heuristic that picks the suffix tree method
SuffixTreeThreshold == 1000

\* turbo_lcs: ((list_sum / list_len) ** 2) * list_len > 1000, in integers
UseSuffixTree(multi_list) ==
    ((list_sum(multi_list) \div Len(multi_list)) * (list_sum(multi_list) \div Len(multi_list)))
        * Len(multi_list) > SuffixTreeThreshold

\* turbo_lcs, the standard algorithm: the loop over multi_list
RECURSIVE PairwiseLcs(_, _)
PairwiseLcs(items, common) ==
    IF items = <<>> THEN common
    ELSE PairwiseLcs(Tail(items), longest_common_substring(items[1], common).string)

\* turbo_lcs with the standard algorithm; a list of fewer than two items
\* returns multi_list[0]
StandardLcs(multi_list) ==
    IF Len(multi_list) < 2 THEN multi_list[1]
    ELSE PairwiseLcs(Tail(multi_list), multi_list[1])

\* the strings that occur in s as a run of consecutive characters
Substrings(s) == {Slice(s, a, b) : a \in 0..Len(s), b \in 0..Len(s)}

\* the substrings common to all the strings of the list
CommonSubstrings(multi_list) ==
    {c \in Substrings(multi_list[1]) : \A i \in DOMAIN multi_list : c \in Substrings(multi_list[i])}

\* the longest of them
LongestCommon(multi_list) ==
    {c \in CommonSubstrings(multi_list) :
        \A d \in CommonSubstrings(multi_list) : Len(d) <= Len(c)}

\* suffixtree.multi_lcs(multi_list): a 'response', which is a longest substring
\* common to all the strings, or an 'error'
multi_lcs(multi_list) ==
    {[error |-> FALSE, response |-> c] : c \in LongestCommon(multi_list)}
        \cup {[error |-> TRUE, response |-> <<>>]}

\* turbo_lcs(release_id, multi_list): the values it can return
turbo_lcs(multi_list) ==
    IF Len(multi_list) >= 2 /\ UseSuffixTree(multi_list)
    THEN {IF r.error THEN StandardLcs(multi_list) ELSE r.response : r \in multi_lcs(multi_list)}
    ELSE {StandardLcs(multi_list)}

\* the values None and a list of Python
PyNone == [none |-> TRUE, items |-> <<>>]
PyList(items) == [none |-> FALSE, items |-> items]

\* min(a, b)
Min(a, b) == IF a < b THEN a ELSE b

\* longest_common_sequence, "for i in range(k, min_len + 1)": acc holds
\* longest and seq
RECURSIVE LcsqEnds(_, _, _, _, _, _)
LcsqEnds(list1, list2, k, i, min_len, acc) ==
    IF i > min_len THEN acc
    ELSE LcsqEnds(list1, list2, k, i + 1, min_len,
                  IF Slice(list1, k, i) = Slice(list2, k, i) /\ i - k > acc.longest
                  THEN [longest |-> i - k, seq |-> PyList(Slice(list1, k, i))]
                  ELSE acc)

\* longest_common_sequence, "for k in range(minstart, maxstart)" with maxstart
\* already min(maxstart, min_len) + 1
RECURSIVE LcsqStarts(_, _, _, _, _, _)
LcsqStarts(list1, list2, k, maxstart, min_len, acc) ==
    IF k >= maxstart THEN acc
    ELSE LcsqStarts(list1, list2, k + 1, maxstart, min_len,
                    LcsqEnds(list1, list2, k, k, min_len, acc))

\* what longest_common_sequence returns: the pair (None, 0) or the dictionary
\* of 'sequence' and 'length'
LcsqPair == [type |-> "tuple", sequence |-> PyNone, length |-> 0]
LcsqDict(acc) == [type |-> "dict", sequence |-> acc.seq, length |-> acc.longest]

\* longest_common_sequence(list1, list2, minstart, maxstart), 0 <= minstart
longest_common_sequence(list1, list2, minstart, maxstart) ==
    IF maxstart < minstart THEN LcsqPair
    ELSE LcsqDict(LcsqStarts(list1, list2, minstart,
                             Min(maxstart, Min(Len(list1), Len(list2))) + 1,
                             Min(Len(list1), Len(list2)),
                             [longest |-> 0, seq |-> PyNone]))

\* ------------------------------------------------------ text comparison
\* The characters of the titles, names and option texts of the model. EQ
\* stands for the text of self.EQ ("EQ_TO_BE_REVERSED", all word characters)
\* and EQ_lower for its lower case; Ellipsis for u'…'.
EQ == "EQ_TO_BE_REVERSED"
EQ_lower == "eq_to_be_reversed"
Ellipsis == "u2026"
Capitals == <<"A", "B", "C", "D", "E", "F", "G", "H", "I", "J", "K", "L", "M",
              "N", "O", "P", "Q", "R", "S", "T", "U", "V", "W", "X", "Y", "Z">>
SmallLetters == <<"a", "b", "c", "d", "e", "f", "g", "h", "i", "j", "k", "l", "m",
                  "n", "o", "p", "q", "r", "s", "t", "u", "v", "w", "x", "y", "z">>
DigitChars == {"0", "1", "2", "3", "4", "5", "6", "7", "8", "9"}

\* the place of the letter c in the alphabet
Place(c, alphabet) == CHOOSE i \in DOMAIN alphabet : alphabet[i] = c

\* \w of the re module
IsWordChar(c) ==
    c \in Range(Capitals) \cup Range(SmallLetters) \cup DigitChars \cup {"_", EQ, EQ_lower}

\* \s of the re module, and the characters str.strip() removes
Whitespace == {" "}

\* str.lower() on one character
LowerChar(c) ==
    IF c \in Range(Capitals) THEN SmallLetters[Place(c, Capitals)]
    ELSE IF c = EQ THEN EQ_lower ELSE c

\* str.upper() on one character
UpperChar(c) ==
    IF c \in Range(SmallLetters) THEN Capitals[Place(c, SmallLetters)]
    ELSE IF c = EQ_lower THEN EQ ELSE c

\* str.upper()
Upper(s) == [i \in DOMAIN s |-> UpperChar(s[i])]

\* str.lower()
Lower(s) == [i \in DOMAIN s |-> LowerChar(s[i])]

\* str.lstrip(chars), str.rstrip(chars), str.strip(chars)
RECURSIVE LStrip(_, _)
LStrip(s, chars) ==
    IF s # <<>> /\ s[1] \in chars THEN LStrip(Tail(s), chars) ELSE s

RECURSIVE RStrip(_, _)
RStrip(s, chars) ==
    IF s # <<>> /\ s[Len(s)] \in chars THEN RStrip(SubSeq(s, 1, Len(s) - 1), chars) ELSE s

Strip(s, chars) == RStrip(LStrip(s, chars), chars)

\* s[p:] of Python, 0 <= p
From(s, p) == SubSeq(s, p + 1, Len(s))

\* the text t stands in s at offset p
MatchAt(s, p, t) == p + Len(t) <= Len(s) /\ SubSeq(s, p + 1, p + Len(t)) = t

\* str.startswith
StartsWith(s, t) == MatchAt(s, 0, t)

\* str.count for one character
CharCount(s, c) == Cardinality({i \in DOMAIN s : s[i] = c})

\* c in s, for a character
HasChar(s, c) == \E i \in DOMAIN s : s[i] = c

\* str.replace(old, new) for a non-empty old: every occurrence, from the left
RECURSIVE Replace(_, _, _)
Replace(s, old, new) ==
    IF s = <<>> THEN <<>>
    ELSE IF StartsWith(s, old) THEN new \o Replace(From(s, Len(old)), old, new)
         ELSE <<s[1]>> \o Replace(Tail(s), old, new)

\* \b of the re module at offset p of s
WordBoundary(s, p) ==
    (p >= 1 /\ IsWordChar(s[p])) # (p < Len(s) /\ IsWordChar(s[p + 1]))

\* re.sub('\\b' + re.escape(key) + '\\b', repl, s, count) for a non-empty key;
\* count = 0 replaces every match, n counts the replacements made
RECURSIVE SubWord(_, _, _, _, _, _)
SubWord(s, p, key, repl, count, n) ==
    IF p >= Len(s) \/ (count > 0 /\ n >= count) THEN From(s, p)
    ELSE IF MatchAt(s, p, key) /\ WordBoundary(s, p) /\ WordBoundary(s, p + Len(key))
         THEN repl \o SubWord(s, p + Len(key), key, repl, count, n + 1)
         ELSE <<s[p + 1]>> \o SubWord(s, p + 1, key, repl, count, n)

\* boil: the chain of str.replace calls (the characters with accents, the
\* sharp s and the ligature are not among the characters of the model)
BoilReplace(s) ==
    Replace(Replace(Replace(Replace(Replace(Replace(s, <<EQ_lower>>, <<>>),
        <<"s", "c", "h">>, <<"s", "h">>), <<"s", "z">>, <<"s", "s">>),
        <<"o", "e">>, <<"o">>), <<"u", "e">>, <<"u">>), <<"a", "e">>, <<"a">>)

\* PartLevels.boil: lower case, the replacements, punc.sub('', s), .strip(),
\* .lower(), .rstrip("s'")
boil(s) == RStrip(Lower(Strip(SelectSeq(BoilReplace(Lower(s)), IsWordChar), Whitespace)), {"s", "'"})

\* the number of characters at the start of s that are (word = TRUE) or are
\* not (word = FALSE) word characters: what a greedy \w* or \W* takes
RECURSIVE Run(_, _)
Run(s, word) ==
    IF s # <<>> /\ IsWordChar(s[1]) = word THEN 1 + Run(Tail(s), word) ELSE 0

\* the same for the digits: \d*
RECURSIVE DigitRun(_)
DigitRun(s) == IF s # <<>> /\ s[1] \in DigitChars THEN 1 + DigitRun(Tail(s)) ELSE 0

\* w is the concatenation of one alternative of each part, in order
RECURSIVE InConcat(_, _)
InConcat(w, regex_parts) ==
    IF regex_parts = <<>> THEN w = <<>>
    ELSE \E a \in regex_parts[1] :
            StartsWith(w, a) /\ InConcat(From(w, Len(a)), Tail(regex_parts))

\* X{0,n}
UpTo(c, n) == {[i \in 1..k |-> c] : k \in 0..n}

\* D?C{0,3}, L?X{0,3}, V?I{0,3}
Opt(c, d) == UpTo(d, 3) \cup {<<c>> \o r : r \in UpTo(d, 3)}

\* diff_pair, p1: M{0,4}(CM|CD|D?C{0,3})(XC|XL|L?X{0,3})(IX|IV|V?I{0,3})
RomanPrefix == <<UpTo("M", 4),
                 {<<"C", "M">>, <<"C", "D">>} \cup Opt("D", "C"),
                 {<<"X", "C">>, <<"X", "L">>} \cup Opt("L", "X"),
                 {<<"I", "X">>, <<"I", "V">>} \cup Opt("V", "I")>>

\* p1.sub('', s): ^\W*\b<roman numeral>\b[\s|\.|:|,|;] with re.IGNORECASE. The
\* numeral ends at a word boundary before a character that is no word
\* character, so it is the whole first word of s.
p1_sub(s, k, w) ==
    IF /\ w > 0
       /\ InConcat(Upper(SubSeq(s, k + 1, k + w)), RomanPrefix)
       /\ k + w < Len(s)
       /\ s[k + w + 1] \in {" ", "|", ".", ":", ",", ";"}
    THEN From(s, k + w + 1)
    ELSE s

p1(s) == p1_sub(s, Run(s, FALSE), Run(From(s, Run(s, FALSE)), TRUE))

\* p2.sub('', s): ^\W*\d+[.):-]
p2_sub(s, k, d) ==
    IF d > 0 /\ k + d < Len(s) /\ s[k + d + 1] \in {".", ")", ":", "-"}
    THEN From(s, k + d + 1)
    ELSE s

p2(s) == p2_sub(s, Run(s, FALSE), DigitRun(From(s, Run(s, FALSE))))

\* self.options[track]["cwp_removewords_p"].split(','): entries of the
\* default setting; each of them begins with a space
removewords == <<<<" ", "a", "c", "t">>, <<" ", "l", "a", " ">>, <<" ", "l", "e", " ">>,
                 <<" ", "a", " ">>, <<" ", "e", "l", " ">>, <<" ", "i", "l", " ">>>>

\* diff_pair, the loop over removewords for one of the two texts
RECURSIVE strip_prefixes(_, _)
strip_prefixes(s, prefixes) ==
    IF prefixes = <<>> THEN s
    ELSE IF /\ prefixes[1][1] # " "
            /\ StartsWith(Lower(s), LStrip(Lower(prefixes[1]), Whitespace))
         THEN strip_prefixes(From(s, Len(LStrip(Lower(prefixes[1]), Whitespace))),
                             Tail(prefixes))
         ELSE strip_prefixes(s, Tail(prefixes))

\* diff_pair, "for i in range(0, 5)": numbers, roman numerals and the
\* prefixes are taken from the start of the text (an empty text stays empty)
RECURSIVE check_prefixes(_, _)
check_prefixes(s, i) ==
    IF i = 0 \/ s = <<>> THEN s
    ELSE check_prefixes(
             Strip(strip_prefixes(Strip(p2(p1(s)), Whitespace), removewords), Whitespace),
             i - 1)

\* the offset of the first c in s, which holds one
Find(s, c) == CHOOSE i \in DOMAIN s : s[i] = c /\ \A j \in 1..(i - 1) : s[j] # c

\* str.split(c) for a separator of one character
RECURSIVE Split(_, _)
Split(s, c) ==
    IF ~HasChar(s, c) THEN <<s>>
    ELSE <<SubSeq(s, 1, Find(s, c) - 1)>> \o Split(From(s, Find(s, c)), c)

\* the annotations diff_pair appends to ~cwp_error: the text and the entry of
\* the option that follows it
ERR_REPLACEMENT == "6. Error in replacement format for replacement "
ERR_SYN_BLANK == "7. Synonym entries must not be blank - error in "
ERR_SYN_PUNC == "7. Synonyms must be single words without punctuation - error in "
ERR_SYN_FORMAT == "7. Error in synonym format for synonym "

\* text + entry
Message(text, entry) == [text |-> text, entry |-> entry]

\* rep.strip(' ()').split(',')
Elements(entry) == Split(Strip(entry, {" ", "(", ")"}), ",")

\* tr.strip("' ").strip('"')
Element(tr) == Strip(Strip(tr, {"'", " "}), {"\""})

\* diff_pair, the loop over strreps: an entry of two elements joins the
\* replacements, any other is reported on the track
RECURSIVE parse_replacements(_, _)
parse_replacements(strreps, d) ==
    IF strreps = <<>> THEN d
    ELSE parse_replacements(Tail(strreps),
            IF Len(Elements(strreps[1])) = 2
            THEN [d EXCEPT !.replacements = Append(@, <<Element(Elements(strreps[1])[1]),
                                                        Element(Elements(strreps[1])[2])>>)]
            ELSE [d EXCEPT !.cwp_error = append_tag(@, Message(ERR_REPLACEMENT, strreps[1]))])

\* re.findall(r'[^\w|\&]+', ts) finds something
HasPunctuation(ts) == \E i \in DOMAIN ts : ~IsWordChar(ts[i]) /\ ts[i] \notin {"|", "&"}

\* diff_pair, the loop over the two elements of a synonym entry: the report of
\* a blank element or of one with punctuation
SynonymErrors(tags, syn, ts) ==
    IF ts = <<>> THEN append_tag(tags, Message(ERR_SYN_BLANK, syn))
    ELSE IF HasPunctuation(ts) THEN append_tag(tags, Message(ERR_SYN_PUNC, syn))
    ELSE tags

\* the element is marked "**BAD**"
Bad(ts) == ts = <<>> \/ HasPunctuation(ts)

\* diff_pair, the loop over strsyns
RECURSIVE parse_synonyms(_, _)
parse_synonyms(strsyns, d) ==
    IF strsyns = <<>> THEN d
    ELSE parse_synonyms(Tail(strsyns),
            IF Len(Elements(strsyns[1])) = 2
            THEN LET key == Element(Elements(strsyns[1])[1])
                     equiv == Element(Elements(strsyns[1])[2])
                     tags == SynonymErrors(SynonymErrors(d.cwp_error, strsyns[1], key),
                                           strsyns[1], equiv)
                 IN  IF Bad(key) \/ Bad(equiv)
                     THEN [d EXCEPT !.cwp_error = tags]
                     ELSE [d EXCEPT !.synonyms = Append(@, <<key, equiv>>)]
            ELSE [d EXCEPT !.cwp_error = append_tag(@, Message(ERR_SYN_FORMAT, strsyns[1]))])

\* key[0] == "!" and key[1] == "!" and key[-1] == "!" and key[-2] == "!"
\* raises IndexError: the key is empty, or it is "!"
KeyRaises(key) == key = <<>> \/ key = <<"!">>

\* the key is a regular expression between "!!" and "!!"
IsRegexKey(key) ==
    Len(key) >= 2 /\ key[1] = "!" /\ key[2] = "!" /\ key[Len(key)] = "!" /\ key[Len(key) - 1] = "!"

\* repl before every character of s and after the last: what re.sub does
\* with a pattern that is empty
RECURSIVE EveryGap(_, _)
EveryGap(s, repl) ==
    IF s = <<>> THEN repl ELSE repl \o <<s[1]>> \o EveryGap(Tail(s), repl)

\* re.sub(key[2:-2], equiv, ti) for an expression that is plain text (the
\* keys of the model hold none of the special characters of the re module)
sub_regex(pattern, repl, s) ==
    IF pattern = <<>> THEN EveryGap(s, repl) ELSE Replace(s, pattern, repl)

\* diff_pair, "for key, equiv in replacements": the title after the
\* replacements; the loop ends where a key raises
RECURSIVE fix_replacements(_, _)
fix_replacements(replacements, d) ==
    IF replacements = <<>> \/ d.raised THEN d
    ELSE fix_replacements(Tail(replacements),
            IF KeyRaises(replacements[1][1]) THEN [d EXCEPT !.raised = TRUE]
            ELSE IF IsRegexKey(replacements[1][1])
                 THEN [d EXCEPT !.ti = sub_regex(SubSeq(replacements[1][1], 3,
                                                        Len(replacements[1][1]) - 2),
                                                 replacements[1][2], @)]
                 ELSE [d EXCEPT !.ti = SubWord(@, 0, replacements[1][1],
                                               replacements[1][2], 0, 0)])

\* from_roman, romanNumeralMap
romanNumeralMap == <<<<<<"M">>, 1000>>, <<<<"C", "M">>, 900>>, <<<<"D">>, 500>>,
                     <<<<"C", "D">>, 400>>, <<<<"C">>, 100>>, <<<<"X", "C">>, 90>>,
                     <<<<"L">>, 50>>, <<<<"X", "L">>, 40>>, <<<<"X">>, 10>>,
                     <<<<"I", "X">>, 9>>, <<<<"V">>, 5>>, <<<<"I", "V">>, 4>>,
                     <<<<"I">>, 1>>>>

\* from_roman: the loop over romanNumeralMap from its k-th pair on, the text
\* read up to index
RECURSIVE from_roman_loop(_, _, _)
from_roman_loop(s, index, k) ==
    IF k > Len(romanNumeralMap) THEN 0
    ELSE IF MatchAt(s, index, romanNumeralMap[k][1])
         THEN romanNumeralMap[k][2]
              + from_roman_loop(s, index + Len(romanNumeralMap[k][1]), k)
         ELSE from_roman_loop(s, index, k + 1)

from_roman(s) == from_roman_loop(s, 0, 1)

\* unicode(n) for a number that is not negative
RECURSIVE unicode(_)
unicode(n) ==
    IF n < 10 THEN <<<<"0", "1", "2", "3", "4", "5", "6", "7", "8", "9">>[n + 1]>>
    ELSE unicode(n \div 10) \o unicode(n % 10)

\* replace_roman_numerals, p:
\* M{0,4}(CM|CD|D?)?C{0,3}(XC|XL|L?)?X{0,3}(IX|IV|V?)?I{0,3}
RomanNumeral == <<UpTo("M", 4), {<<>>, <<"C", "M">>, <<"C", "D">>, <<"D">>}, UpTo("C", 3),
                  {<<>>, <<"X", "C">>, <<"X", "L">>, <<"L">>}, UpTo("X", 3),
                  {<<>>, <<"I", "X">>, <<"I", "V">>, <<"V">>}, UpTo("I", 3)>>

\* (\.|:|,|;|$) at offset p of s
NumeralEnd(s, p) == p = Len(s) \/ (p < Len(s) /\ s[p + 1] \in {".", ":", ",", ";"})

\* replace_roman_numerals, p.findall(s) from offset p on, the matches with an
\* empty roman[0] left out: a match takes a whole word that reads as a numeral
\* in either case, and the mark after it
RECURSIVE romans(_, _)
romans(s, p) ==
    IF p >= Len(s) THEN <<>>
    ELSE IF ~IsWordChar(s[p + 1]) THEN romans(s, p + 1)
    ELSE LET w == Run(From(s, p), TRUE)
         IN  IF /\ InConcat(Upper(SubSeq(s, p + 1, p + w)), RomanNumeral)
                /\ NumeralEnd(s, p + w)
             THEN <<SubSeq(s, p + 1, p + w)>> \o romans(s, p + w)
             ELSE romans(s, p + w)

\* re.sub(roman[0] + r'(\.|:|,|;|$)', digits, s) from offset p on
RECURSIVE sub_roman(_, _, _, _)
sub_roman(s, p, numerals, digits) ==
    IF p >= Len(s) THEN <<>>
    ELSE IF MatchAt(s, p, numerals) /\ NumeralEnd(s, p + Len(numerals))
         THEN digits \o sub_roman(s, p + Len(numerals) + 1, numerals, digits)
         ELSE <<s[p + 1]>> \o sub_roman(s, p + 1, numerals, digits)

\* replace_roman_numerals, "for roman in romans"
RECURSIVE replace_romans(_, _)
replace_romans(s, found) ==
    IF found = <<>> THEN s
    ELSE replace_romans(sub_roman(s, 0, found[1], unicode(from_roman(found[1]))),
                        Tail(found))

replace_roman_numerals(s) == replace_romans(s, romans(s, 0))

\* re.IGNORECASE | re.UNICODE, which diff_pair hands to re.sub in the place
\* of count
IGNORECASE_UNICODE == 34

\* diff_pair, "for key, equiv in synonyms": an equivalent is marked equo, a
\* key becomes syno, in at most IGNORECASE_UNICODE places each
mark_synonym(s, key, equiv) ==
    SubWord(SubWord(s, 0, equiv, equiv \o <<EQ>>, IGNORECASE_UNICODE, 0),
            0, key, <<EQ>> \o equiv, IGNORECASE_UNICODE, 0)

RECURSIVE mark_synonyms(_, _)
mark_synonyms(s, synonyms) ==
    IF synonyms = <<>> \/ s = <<>> THEN s
    ELSE mark_synonyms(mark_synonym(s, synonyms[1][1], synonyms[1][2]), Tail(synonyms))

reverse_syn_marks_only(term, synonyms) == Replace(term, <<EQ>>, <<>>)

\* PartLevels.reverse_syn
RECURSIVE reverse_syn(_, _)
reverse_syn(term, synonyms) ==
    IF synonyms = <<>> \/ term = <<>> THEN term
    ELSE reverse_syn(Replace(SubWord(term, 0, <<EQ>> \o synonyms[1][2], synonyms[1][1], 0, 0),
                             <<EQ>>, <<>>),
                     Tail(synonyms))

\* strip_parent_from_work, pattern_parent: a word character of the parent
\* stands for itself, any other character for \W{0,2}
IsGap(c) == ~IsWordChar(c)

\* the end of the first match of the pattern of the parent from its k-th
\* character on, followed by \w*\W?, at offset p of the work; -1 if there is
\* none. A \W{0,2} takes n characters, then fewer.
RECURSIVE match_parent(_, _, _, _)
RECURSIVE match_gap(_, _, _, _, _)
match_parent(work, p, parent, k) ==
    IF k > Len(parent)
    THEN LET w == Run(From(work, p), TRUE)
         IN  IF p + w < Len(work) THEN p + w + 1 ELSE p + w
    ELSE IF IsGap(parent[k])
         THEN match_gap(work, p, parent, k,
                        IF Run(From(work, p), FALSE) > 2 THEN 2 ELSE Run(From(work, p), FALSE))
         ELSE IF p < Len(work) /\ LowerChar(work[p + 1]) = LowerChar(parent[k])
              THEN match_parent(work, p + 1, parent, k + 1)
              ELSE -1

match_gap(work, p, parent, k, n) ==
    IF match_parent(work, p + n, parent, k + 1) # -1 \/ n = 0
    THEN match_parent(work, p + n, parent, k + 1)
    ELSE match_gap(work, p, parent, k, n - 1)

\* the same for \W* before the pattern of the parent, taking n characters,
\* then fewer
RECURSIVE match_group2(_, _, _, _)
match_group2(work, p, parent, n) ==
    IF match_parent(work, p + n, parent, 1) # -1 \/ n = 0
    THEN match_parent(work, p + n, parent, 1)
    ELSE match_group2(work, p, parent, n - 1)

\* the end of group 2 when group 1, (.*\s|^), ends at offset q
Group2End(work, q, parent) == match_group2(work, q, parent, Run(From(work, q), FALSE))

\* p.search(work): the end of group 1, the longest .*\s first and ^ last; -1
\* if the pattern is not found
RECURSIVE search_parent(_, _, _)
search_parent(work, q, parent) ==
    IF q < 0 THEN -1
    ELSE IF (q = 0 \/ work[q] \in Whitespace) /\ Group2End(work, q, parent) # -1 THEN q
    ELSE search_parent(work, q - 1, parent)

\* strip_parent_from_work(release_id, work, parent, 0, False)[0]
stripped_work(work, parent, q) ==
    IF q = -1 THEN work
    ELSE IF q > 0
         THEN SubSeq(work, 1, q) \o <<Ellipsis>> \o From(work, Group2End(work, q, parent))
         ELSE From(work, Group2End(work, q, parent))

strip_parent_from_work(work, parent) ==
    stripped_work(work, parent, search_parent(work, Len(work), parent))

\* re.split(r';\s|:\s|\.\s|\-\s', s, maxsplit) from offset p on, n splits
\* made and the piece that began at offset b not yet closed
RECURSIVE re_split(_, _, _, _, _)
re_split(s, b, p, maxsplit, n) ==
    IF p + 1 >= Len(s) \/ (maxsplit > 0 /\ n >= maxsplit) THEN <<From(s, b)>>
    ELSE IF s[p + 1] \in {";", ":", ".", "-"} /\ s[p + 2] \in Whitespace
         THEN <<SubSeq(s, b + 1, p)>> \o re_split(s, p + 2, p + 2, maxsplit, n + 1)
         ELSE re_split(s, b, p + 1, maxsplit, n)

\* diff_pair, "for mb_bit in mb_list"
RECURSIVE strip_bits(_, _)
strip_bits(ti_new, mb_list) ==
    IF mb_list = <<>> \/ ti_new = <<>> THEN ti_new
    ELSE strip_bits(strip_parent_from_work(ti_new, mb_list[1]), Tail(mb_list))

\* re.findall(r"\b\w+?\b|\B\&\B", s) from offset p on: the words of s, and
\* each "&" that stands between characters that are no word characters
RECURSIVE findall_words(_, _)
findall_words(s, p) ==
    IF p >= Len(s) THEN <<>>
    ELSE IF IsWordChar(s[p + 1])
         THEN <<SubSeq(s, p + 1, p + Run(From(s, p), TRUE))>>
              \o findall_words(s, p + Run(From(s, p), TRUE))
         ELSE IF /\ s[p + 1] = "&"
                 /\ (p = 0 \/ ~IsWordChar(s[p]))
                 /\ (p + 1 = Len(s) \/ ~IsWordChar(s[p + 2]))
              THEN <<<<"&">>>> \o findall_words(s, p + 1)
              ELSE findall_words(s, p + 1)

\* [^\w|\&]
IsPunc(c) == ~IsWordChar(c) /\ c \notin {"|", "&"}

\* the number of characters at the start of s that [^\w|\&]+ takes
RECURSIVE PuncRun(_)
PuncRun(s) == IF s # <<>> /\ IsPunc(s[1]) THEN 1 + PuncRun(Tail(s)) ELSE 0

\* re.findall(r"[^\w|\&]+", s) from offset p on
RECURSIVE findall_punc(_, _)
findall_punc(s, p) ==
    IF p >= Len(s) THEN <<>>
    ELSE IF IsPunc(s[p + 1])
         THEN <<SubSeq(s, p + 1, p + PuncRun(From(s, p)))>>
              \o findall_punc(s, p + PuncRun(From(s, p)))
         ELSE findall_punc(s, p + 1)

\* diff_pair, ti_list and ti_test_list: '' is put before the words of a text
\* that begins with punctuation
word_list(s, ti) ==
    IF findall_punc(ti, 0) # <<>> /\ findall_punc(ti, 0)[1][1] = ti[1]
    THEN <<<<>>>> \o findall_words(s, 0)
    ELSE findall_words(s, 0)

\* diff_pair, ti_list_punc: '' is added when there are fewer pieces of
\* punctuation than words
punc_list(ti) ==
    IF Len(findall_punc(ti, 0)) < Len(word_list(ti, ti))
    THEN Append(findall_punc(ti, 0), <<>>)
    ELSE findall_punc(ti, 0)

\* zip(ti_list, ti_list_punc)
zip(ti_list, ti_list_punc) ==
    [i \in 1..(IF Len(ti_list) < Len(ti_list_punc) THEN Len(ti_list) ELSE Len(ti_list_punc))
        |-> <<ti_list[i], ti_list_punc[i]>>]

\* diff_pair, mb_list2: the boiled words of the catalogue text
mb_list2(mb_test) == [i \in DOMAIN findall_words(mb_test, 0) |-> boil(findall_words(mb_test, 0)[i])]

\* diff_pair, "ti_bit = ti_zip_list[i]" raises IndexError for a word that has
\* no place in the zipped list
ZipRaises(ti_list, ti_zip_list, ti_test_list) ==
    \E i \in DOMAIN ti_test_list : i <= Len(ti_list) /\ i > Len(ti_zip_list)

\* diff_pair, ti_rich_list: every word of the title with the punctuation after
\* it, and whether the word is new
rich_list(ti_list, ti_zip_list, ti_test_list, mb_words) ==
    [i \in DOMAIN ti_test_list |->
        [bit |-> IF i <= Len(ti_list) THEN ti_zip_list[i] ELSE <<<<>>, <<>>>>,
         new |-> ~(ti_test_list[i] = <<>> \/ boil(ti_test_list[i]) \in Range(mb_words))]]

\* the places of the new words
NewWords(ti_rich_list) == {i \in DOMAIN ti_rich_list : ti_rich_list[i].new}

\* the last of them
LastNew(ti_rich_list) ==
    CHOOSE i \in NewWords(ti_rich_list) : \A j \in NewWords(ti_rich_list) : j <= i

remove_singleton_keep(ti_rich_list) == ti_rich_list

\* diff_pair, "ignore singleton new words in middle of title"
remove_singleton(ti_rich_list) ==
    IF /\ Cardinality(NewWords(ti_rich_list)) = 1
       /\ 1 < LastNew(ti_rich_list)
       /\ LastNew(ti_rich_list) < Len(ti_rich_list)
    THEN [ti_rich_list EXCEPT ![LastNew(ti_rich_list)].new = FALSE]
    ELSE ti_rich_list

\* diff_pair, "for j in range(0, p + 1)" for the i-th word, which is not new:
\* a new word follows within p words, or the title ends within p - d
Near(ti_rich_list, i, p, d) ==
    \E j \in 0..p :
        IF i + j <= Len(ti_rich_list) THEN ti_rich_list[i + j].new ELSE j <= p - d

\* diff_pair, the loop that fills the gaps, from the i-th word on
RECURSIVE fill_gaps(_, _, _, _, _)
fill_gaps(ti_rich_list, i, p, proximity, d) ==
    IF i > Len(ti_rich_list) THEN ti_rich_list
    ELSE IF ti_rich_list[i].new THEN fill_gaps(ti_rich_list, i + 1, proximity, proximity, d)
    ELSE IF p > 0 /\ Near(ti_rich_list, i, p, d)
         THEN fill_gaps([ti_rich_list EXCEPT ![i].new = TRUE], i + 1, p, proximity, d)
         ELSE fill_gaps(ti_rich_list, i + 1, p - 1, proximity, d)

gapping_always(ti_rich_list, proximity, end_proximity) ==
    fill_gaps(ti_rich_list, 1, proximity, proximity, proximity - end_proximity)

\* diff_pair, the gaps are filled if a new word is left
gapping(ti_rich_list, proximity, end_proximity) ==
    IF NewWords(ti_rich_list) = {} THEN ti_rich_list
    ELSE fill_gaps(ti_rich_list, 1, proximity, proximity, proximity - end_proximity)

\* s[-1] as a text, s[:-1]
LastChar(s) == <<s[Len(s)]>>
ButLast(s) == SubSeq(s, 1, Len(s) - 1)

\* diff_pair, what the i-th word adds to ti_new
new_text(ti_rich_list, i, new_prev) ==
    IF ti_rich_list[i].new
    THEN (IF ~new_prev /\ i > 1 /\ Len(ti_rich_list[i - 1].bit[2]) > 1
          THEN LastChar(ti_rich_list[i - 1].bit[2]) ELSE <<>>)
         \o ti_rich_list[i].bit[1]
         \o (IF /\ Len(ti_rich_list[i].bit[2]) > 1
                /\ i < Len(ti_rich_list)
                /\ ~ti_rich_list[i + 1].new
             THEN ButLast(ti_rich_list[i].bit[2])
             ELSE ti_rich_list[i].bit[2])
    ELSE IF new_prev THEN <<Ellipsis, " ">> ELSE <<>>

\* diff_pair, ''.join(ti_new) of the words from the i-th on
RECURSIVE join_new(_, _)
join_new(ti_rich_list, i) ==
    IF i > Len(ti_rich_list) THEN <<>>
    ELSE new_text(ti_rich_list, i, i > 1 /\ ti_rich_list[i - 1].new)
         \o join_new(ti_rich_list, i + 1)

\* default of options["cwp_substring_match"]
cwp_substring_match == 66

\* len(lcs) >= ti_len * float(cwp_substring_match) / 100
TooSimilar(nopunc_mb, nopunc_ti, substring_match) ==
    Len(longest_common_substring(nopunc_mb, nopunc_ti).string) * 100
        >= Len(nopunc_ti) * substring_match

\* list.pop(i) for an offset i
Pop(list, i) == [k \in 1..(Len(list) - 1) |-> IF k <= i THEN list[k] ELSE list[k + 1]]

\* diff_pair, "remove duplicate successive words": the loop runs over the list
\* it pops from, and ti_bit_prev is the word it saw before
RECURSIVE remove_dups(_, _, _)
remove_dups(ti_list_new, i, ti_bit_prev) ==
    IF i >= Len(ti_list_new) THEN ti_list_new
    ELSE IF /\ ti_list_new[i + 1] # <<".", ".", ".">>
            /\ i > 1
            /\ boil(ti_list_new[i + 1]) = boil(ti_bit_prev)
         THEN remove_dups(Pop(ti_list_new, i), i + 1, ti_list_new[i + 1])
         ELSE remove_dups(ti_list_new, i + 1, ti_list_new[i + 1])

\* str.join
RECURSIVE Join(_, _)
Join(sep, list) ==
    IF list = <<>> THEN <<>>
    ELSE IF Len(list) = 1 THEN list[1]
    ELSE list[1] \o sep \o Join(sep, Tail(list))

\* diff_pair, a quotation mark that stands alone is stripped
strip_quote(ti, c) == IF CharCount(ti, c) = 1 THEN Strip(ti, {c}) ELSE ti

\* diff_pair, a bracket without its partner is removed
unmatched(ti, c, partner) ==
    IF HasChar(ti, c) /\ ~HasChar(ti, partner) THEN SelectSeq(ti, LAMBDA x : x # c) ELSE ti

unmatched_brackets(ti) ==
    unmatched(unmatched(unmatched(unmatched(unmatched(unmatched(ti,
        "(", ")"), ")", "("), "[", "]"), "]", "["), "{", "}"), "}", "{")

\* diff_pair, match_chars
match_chars == <<<<"(", ")">>, <<"[", "]">>, <<"{", "}">>>>

\* diff_pair, "for char_pair in match_chars" from the k-th pair on; last_offset
\* is the offset of the last character of the text the loop began with, and
\* ti[0] or ti[last] raises IndexError once the text has become too short
RECURSIVE outer_brackets(_, _, _)
outer_brackets(d, last_offset, k) ==
    IF k > Len(match_chars) \/ d.raised THEN d
    ELSE IF d.ti = <<>> THEN [d EXCEPT !.raised = TRUE]
    ELSE IF match_chars[k][1] # d.ti[1] THEN outer_brackets(d, last_offset, k + 1)
    ELSE IF last_offset >= Len(d.ti) THEN [d EXCEPT !.raised = TRUE]
    ELSE IF match_chars[k][2] # d.ti[last_offset + 1]
         THEN outer_brackets(d, last_offset, k + 1)
    ELSE outer_brackets([d EXCEPT !.ti = RStrip(LStrip(@, {match_chars[k][1]}),
                                               {match_chars[k][2]})],
                        last_offset, k + 1)

\* The run of diff_pair is a record d: the texts and lists it works on, the
\* parsed options, the ~cwp_error tag of tm, whether it has raised, and whether
\* it has returned: None (none) or the text value. The parts of diff_pair follow in
\* the order of the code; a part does nothing once d has returned or raised.
Going(d) == ~d.returned /\ ~d.raised

\* return None
ReturnNone(d) == [d EXCEPT !.returned = TRUE, !.none = TRUE]

\* return a text
ReturnText(d, text) == [d EXCEPT !.returned = TRUE, !.value = text]

\* diff_pair, "if ti.count('"') == 1: ti = ti.strip('"')", the same for "'"
strip_quotes(ti) == strip_quote(strip_quote(ti, "\""), "'")

\* diff_pair, from its start to "if not ti: return None"
strip_items(mb, ti) ==
    [mb |-> mb, ti |-> ti, mb_test |-> <<>>, ti_test |-> <<>>, replacements |-> <<>>,
     synonyms |-> <<>>, ti_list |-> <<>>, ti_zip_list |-> <<>>, ti_test_list |-> <<>>,
     mb_list2 |-> <<>>, ti_rich_list |-> <<>>, cwp_error |-> <<>>, raised |-> FALSE,
     returned |-> mb = <<>> \/ ti = <<>>, none |-> mb = <<>> \/ ti = <<>>, value |-> <<>>]

diff_start(mb_item, title_item) ==
    strip_items(Strip(mb_item, Whitespace),
                strip_quotes(Strip(title_item, {" ", ":", ";", "-", ".", ","})))

\* diff_pair, "for i in range(0, 5)"
PrefixPasses == 5

strip_prefix(d) ==
    IF ~Going(d) THEN d
    ELSE [d EXCEPT !.mb = check_prefixes(@, PrefixPasses), !.ti = check_prefixes(@, PrefixPasses)]

\* diff_pair, "#  replacements" and "#  synonyms"
parse_options(d, o) ==
    IF ~Going(d) THEN d
    ELSE parse_synonyms(Split(o.cwp_synonyms, "/"),
                        parse_replacements(Split(o.cwp_replacements, "/"), d))

\* diff_pair, "# fix replacements and synonyms"
replace_in_title(d) == IF ~Going(d) THEN d ELSE fix_replacements(d.replacements, d)

\* diff_pair, "# Replace Roman numerals as per synonyms"
test_texts(d) ==
    IF ~Going(d) THEN d
    ELSE [d EXCEPT !.ti_test = mark_synonyms(replace_roman_numerals(d.ti), d.synonyms),
                   !.mb_test = mark_synonyms(replace_roman_numerals(d.mb), d.synonyms)]

\* diff_pair, "# check if the title item is wholly part of the mb item"
WhollyPart(nopunc_mb, nopunc_ti) ==
    Len(longest_common_substring(nopunc_mb, nopunc_ti).string) >= Len(nopunc_ti)

wholly_part(d) ==
    IF Going(d) /\ WhollyPart(boil(d.mb_test), boil(d.ti_test)) THEN ReturnNone(d) ELSE d

\* diff_pair, "# try and strip the canonical item from the title item", with
\* ti_new what strip_parent_from_work made of the whole title
strip_canonical(d, o, ti_new) ==
    IF ti_new = d.ti_test
    THEN IF strip_bits(ti_new, re_split(d.mb_test, 0, 0, o.cwp_granularity, 0)) = <<>>
         THEN ReturnNone(d)
         ELSE d
    ELSE IF ti_new # <<>> THEN ReturnText(d, reverse_syn(ti_new, d.synonyms))
         ELSE ReturnNone(d)

try_strip(d, o) ==
    IF Going(d) /\ boil(d.mb_test) # <<>>
    THEN strip_canonical(d, o, strip_parent_from_work(d.ti_test, d.mb_test))
    ELSE d

\* diff_pair, "# return any significant new words in the title": the lists
\* of words and of punctuation
word_lists(d) ==
    IF ~Going(d) THEN d
    ELSE [d EXCEPT !.ti_list = word_list(d.ti, d.ti),
                   !.ti_zip_list = zip(word_list(d.ti, d.ti), punc_list(d.ti)),
                   !.ti_test_list = word_list(d.ti_test, d.ti),
                   !.mb_list2 = mb_list2(d.mb_test)]

\* diff_pair, "for i, ti_bit_test in enumerate(ti_test_list)"
new_words(d) ==
    IF ~Going(d) THEN d
    ELSE IF ZipRaises(d.ti_list, d.ti_zip_list, d.ti_test_list) THEN [d EXCEPT !.raised = TRUE]
    ELSE [d EXCEPT !.ti_rich_list = rich_list(d.ti_list, d.ti_zip_list, d.ti_test_list,
                                              d.mb_list2)]

\* diff_pair, the singleton is removed and the gaps are filled
singleton(d) ==
    IF ~Going(d) THEN d ELSE [d EXCEPT !.ti_rich_list = remove_singleton(@)]

fill(d, o) ==
    IF ~Going(d) THEN d
    ELSE [d EXCEPT !.ti_rich_list = gapping(@, o.cwp_proximity, o.cwp_end_proximity)]

\* diff_pair, "if nothing_new: return None", else the new text of the title
join_words(d) ==
    IF ~Going(d) THEN d
    ELSE IF NewWords(d.ti_rich_list) = {} THEN ReturnNone(d)
    ELSE [d EXCEPT !.ti = join_new(d.ti_rich_list, 1)]

\* diff_pair, "# see if there is any significant difference between the
\* strings"
significant(d, o) ==
    IF Going(d) /\ d.ti # <<>> /\ TooSimilar(boil(d.mb), boil(d.ti), o.cwp_substring_match)
    THEN ReturnNone(d)
    ELSE d

\* diff_pair, the first word of the title is dropped if it is the last word
\* of the catalogue text, and the words are joined
rejoin(d, ti_list_new, mb_words) ==
    IF ti_list_new = <<>> \/ mb_words = <<>> THEN ReturnNone(d)
    ELSE IF boil(ti_list_new[1]) = mb_words[Len(mb_words)]
         THEN IF Tail(ti_list_new) = <<>> THEN ReturnNone(d)
              ELSE [d EXCEPT !.ti = Join(<<" ">>, Tail(ti_list_new))]
         ELSE [d EXCEPT !.ti = Join(<<" ">>, ti_list_new)]

duplicates(d) ==
    IF Going(d) /\ d.ti # <<>>
    THEN rejoin(d, remove_dups(Split(d.ti, " "), 0, <<>>), d.mb_list2)
    ELSE d

\* diff_pair, "# remove excess brackets and punctuation"
match_outer(d) == IF d.ti = <<>> THEN d ELSE outer_brackets(d, Len(d.ti) - 1, 1)

brackets(d) ==
    IF d.ti = <<>> THEN d
    ELSE match_outer([d EXCEPT !.ti = unmatched_brackets(strip_quotes(@))])

excess(d) ==
    IF Going(d) /\ d.ti # <<>>
    THEN brackets([d EXCEPT !.ti = strip_quotes(Strip(@, {"!", "&", ".", "-", ":", ";", ",", " "}))])
    ELSE d

\* diff_pair, its last statement
diff_return(d) ==
    IF ~Going(d) THEN d
    ELSE IF d.ti # <<>> THEN ReturnText(d, reverse_syn(d.ti, d.synonyms))
    ELSE ReturnNone(d)

\* what the caller of diff_pair and the track get from the run
Outcome(d) ==
    [raised |-> d.raised, none |-> ~d.raised /\ d.none,
     value |-> IF d.raised \/ d.none THEN <<>> ELSE d.value, cwp_error |-> d.cwp_error]

\* PartLevels.diff_pair(release_id, track, tm, mb_item, title_item) under the
\* options o
diff_pair(mb_item, title_item, o) ==
    Outcome(diff_return(excess(duplicates(significant(join_words(fill(singleton(new_words(
        word_lists(try_strip(wholly_part(test_texts(replace_in_title(parse_options(
            strip_prefix(diff_start(mb_item, title_item)), o)))), o)))), o)), o)))))

\* ---------------------------------------------------------- specification
\* the option settings of a run of Spec: the defaults, but for the cache being
\* on or off and for no or one retry
OptionSets == {[use_cache |-> c, log_error |-> TRUE, user_tags |-> FALSE, retries |-> r] :
                   c \in BOOLEAN, r \in {0, 1}}

\* the option settings of a run of SpecRetry: the default number of retries,
\* with the error log and the alias user tags on or off
RetryOptionSets == {[use_cache |-> TRUE, log_error |-> e, user_tags |-> u,
                     retries |-> DefaultRetries] : e \in BOOLEAN, u \in BOOLEAN}

\* the PartLevels instance as __init__ leaves it, no track delivered yet
Start ==
    /\ works_cache = <<>>
    /\ parts = <<>>
    /\ works_queue = [w \in Works |-> <<>>]
    /\ work_listing = [al \in Albums |-> <<>>]
    /\ top = [al \in Albums |-> <<>>]
    /\ top_works = [t \in Tracks |-> <<>>]
    /\ trackback = [al \in Albums |-> <<>>]
    /\ partof = [al \in Albums |-> <<>>]
    /\ orphan_tracks = [al \in Albums |-> <<>>]
    /\ requests = [al \in Albums |-> 0]
    /\ inflight = EmptyBag
    /\ cwp_error = [t \in Tracks |-> <<>>]
    /\ cwp_warning = [t \in Tracks |-> <<>>]
    /\ seen = [al \in Albums |-> 0]
    /\ assembled = [al \in Albums |-> 0]
    /\ finalized = [al \in Albums |-> FALSE]
    /\ built = [al \in Albums |-> <<>>]
    /\ cwp_tags = [t \in Tracks |-> NoTags]
    /\ loads = [al \in Albums |-> 0]
    /\ aborted = FALSE
    /\ last = NoCall
    /\ auth_failed = {}
    /\ failed_works = {}
    /\ nfaults = 0

\* the work collection plugin is not in use
NoCollection ==
    /\ collection = [pending |-> {}, size |-> 0, works |-> {}]
    /\ xmlws = {}
    /\ confirm = [member_set |-> {}]
    /\ update_list = <<>>

\* no string function is being evaluated
NoArgs == [fn |-> ""]
NoResult == [returned |-> FALSE]
Idle == args = NoArgs /\ result = NoResult /\ NoCollection

\* the releases of two-work tracks are loaded with the cache on
Init ==
    /\ options \in OptionSets
    /\ library \in Libraries
    /\ (library = LibMulti => options.use_cache)
    /\ Start
    /\ Idle

InitRetry ==
    /\ options \in RetryOptionSets
    /\ library \in {LibSame, LibOrphanLast}
    /\ Start
    /\ Idle

InitReliable ==
    /\ options \in {o \in OptionSets : o.retries = 0}
    /\ library \in Libraries
    /\ (library = LibMulti => options.use_cache)
    /\ Start
    /\ Idle

\* the host delivers the next track of one of the releases
TrackArrives == \E al \in Albums : add_work_info(al) /\ UNCHANGED nfaults

\* a lookup ends in a network error
LookupFails == /\ nfaults < MaxFaults
               /\ \E req \in BagToSet(inflight), error \in ErrorCodes :
                      work_process(req, error, "ok")
               /\ nfaults' = nfaults + 1

\* the same, the number of errors in a run not being limited
LookupFailsAgain == /\ \E req \in BagToSet(inflight), error \in ErrorCodes :
                           work_process(req, error, "ok")
                    /\ UNCHANGED nfaults

\* a lookup is answered with the relations of the work
LookupResolves == /\ \E req \in BagToSet(inflight) : work_process(req, 0, "ok")
                  /\ UNCHANGED nfaults

\* a lookup is answered with a document that lacks the work element
LookupMalformed == /\ nfaults < MaxFaults
                   /\ \E req \in BagToSet(inflight), reply \in {"no_work", "no_metadata"} :
                          work_process(req, 0, reply)
                   /\ nfaults' = nfaults + 1

Next == TrackArrives \/ LookupFails \/ LookupResolves \/ LookupMalformed

Spec == Init /\ [][Next]_vars

NextRetry == TrackArrives \/ LookupFailsAgain \/ LookupResolves

SpecRetry == InitRetry /\ [][NextRetry]_vars

NextReliable == TrackArrives \/ LookupResolves

\* the releases of a run of SpecReload: the opera and the symphony with the
\* cache on, the partial recordings and the two-work recording with the cache
\* on or off
InitReload ==
    /\ options \in {o \in OptionSets : o.retries = 0}
    /\ library \in {LibDeep, LibPartial, LibUneven, LibNested, LibChain, LibChainMulti}
    /\ (library = LibNested => options.use_cache)
    /\ (library = LibDeep => options.use_cache)
    /\ (library \in {LibChain, LibChainMulti} => options.use_cache)
    /\ Start
    /\ Idle

\* the host loads a release a second time
ReleaseReloads == \E al \in Albums : Reload(al)

NextReload == TrackArrives \/ LookupResolves \/ ReleaseReloads

SpecReload == InitReload /\ [][NextReload]_vars

\* the step of NextReliable that runs the callback of an outstanding lookup,
\* told by the record of the answered lookup alone
Answered == \E req \in BagToSet(inflight) :
                last' = [workId |-> req.workId, tries |-> req.tries, login |-> req.login,
                         code |-> 0, reply |-> "ok", tuples |-> works_queue[req.workId]]

\* the web service answers: a lookup that stays outstanding gets its callback
SpecReliable == InitReliable /\ [][NextReliable]_vars /\ WF_last(Answered)

\* --------------------------------------- specification: common substrings
\* the strings of a run of SpecLcs: up to MaxStrings strings of up to MaxLen
\* characters, and one list long enough for the suffix tree method
MaxLen == 3
MaxStrings == 3
LcsAlphabet == {"a", "b"}

ShortStrings == UNION {[1..n -> LcsAlphabet] : n \in 0..MaxLen}

ShortLists == UNION {[1..n -> ShortStrings] : n \in 1..MaxStrings}

\* n times the character c
Repeat(c, n) == [i \in 1..n |-> c]

LongList == <<Repeat("a", 11) \o <<"b">> \o Repeat("a", 11),
              Repeat("b", 6) \o Repeat("a", 11) \o Repeat("b", 6)>>

\* the PartLevels state plays no part in a run over a string function
PartLevelsUnused ==
    /\ options = [use_cache |-> TRUE, log_error |-> TRUE, user_tags |-> FALSE, retries |-> 0]
    /\ library = LibSame
    /\ Start

Unused == PartLevelsUnused /\ NoCollection

InitLcs ==
    /\ Unused
    /\ args \in {[fn |-> "turbo_lcs", multi_list |-> l] : l \in ShortLists \cup {LongList}}
    /\ result = NoResult

\* unique_lyrics is handed to turbo_lcs, which returns
CallTurboLcs ==
    /\ args.fn = "turbo_lcs"
    /\ ~result.returned
    /\ \E common \in turbo_lcs(args.multi_list) : result' = [returned |-> TRUE, value |-> common]
    /\ UNCHANGED <<options, library, works_cache, parts, works_queue, work_listing, top,
                   top_works, trackback, partof, orphan_tracks, requests, inflight,
                   cwp_error, cwp_warning, seen, assembled, finalized, built, cwp_tags,
                   loads, aborted, last, auth_failed, failed_works, nfaults, args,
                   collection, xmlws, confirm, update_list>>

NextLcs == CallTurboLcs

SpecLcs == InitLcs /\ [][NextLcs]_vars

\* ------------------------------------------ specification: text comparison
\* the texts of a run of SpecDiff: titles of up to MaxWords words and catalogue
\* texts of up to MaxWords - 1 words under the usual settings, shorter texts
\* under the other settings of the options
MaxWords == 3

Allegro == <<"A", "l", "l", "e", "g", "r", "o">>
molto == <<"m", "o", "l", "t", "o">>
vivace == <<"v", "i", "v", "a", "c", "e">>
Aria == <<"A", "r", "i", "a">>
Arie == <<"A", "r", "i", "e">>

\* the texts of 1 to n of the words, a space between two words
RECURSIVE Phrases(_, _)
Phrases(words, n) ==
    IF n <= 1 THEN words
    ELSE Phrases(words, n - 1)
         \cup {t \o <<" ">> \o w : t \in Phrases(words, n - 1), w \in words}

\* an entry "(key, equiv)" of cwp_synonyms or cwp_replacements, and the
\* entries of an option with " / " between them
Entry(key, equiv) == <<"(">> \o key \o <<",", " ">> \o equiv \o <<")">>
Entries(list) == Join(<<" ", "/", " ">>, list)

\* settings of cwp_synonyms: the pair of the two spellings, in either order,
\* and the pair among entries with punctuation in a word, with a blank word
\* and with one word only
SynonymSettings ==
    {Entry(Aria, Arie), Entry(Arie, Aria),
     Entries(<<Entry(<<"A", "r", ".", "i", "a">>, Arie), Entry(<<>>, Arie),
               <<"(">> \o Aria \o <<")">>, Entry(Aria, Arie)>>)}

\* settings of cwp_replacements: a word for a word, a blank replacement, a
\* blank key, a key of one "!", an expression, and entries of one and of three
\* elements before an entry of two
ReplacementSettings ==
    {Entry(molto, Aria), Entry(molto, <<>>), Entry(<<>>, Aria), Entry(<<"!">>, Aria),
     Entry(<<"!", "!", "l", "t", "!", "!">>, <<"d">>),
     Entries(<<<<"(">> \o Aria \o <<")">>,
               <<"(">> \o Aria \o <<",">> \o molto \o <<",">> \o Arie \o <<")">>,
               Entry(molto, Aria)>>)}

\* the settings of the options of diff_pair: the defaults of cwp_granularity,
\* cwp_proximity, cwp_end_proximity and cwp_substring_match
cwp_granularity == 1
cwp_proximity == 2
cwp_end_proximity == 1

Setting(synonyms, replacements) ==
    [cwp_synonyms |-> synonyms, cwp_replacements |-> replacements,
     cwp_granularity |-> cwp_granularity, cwp_proximity |-> cwp_proximity,
     cwp_end_proximity |-> cwp_end_proximity, cwp_substring_match |-> cwp_substring_match]

\* texts with a number, a numeral, punctuation, brackets and ampersands
MarkedTexts ==
    {<<"1", ".", " ">> \o Aria, <<"1", " ">> \o Aria, <<"I", ".", " ">> \o Aria,
     Aria \o <<" ", "I", "V">>, Aria \o <<" ", "4">>, Aria \o <<":", " ">> \o Allegro,
     <<"(">> \o Aria \o <<")">>, <<"(", "[">> \o Allegro \o <<"]", ")">>,
     Allegro \o <<"&">> \o molto, <<"&", "&", ".", "I", "'">>, <<".">>, <<" ">>}

\* the calls of diff_pair in a run of SpecDiff
DiffCall(mb_item, title_item, o) ==
    [fn |-> "diff_pair", mb_item |-> mb_item, title_item |-> title_item, options |-> o]

DiffCalls ==
    {DiffCall(mb, ti, Setting(Entry(Aria, Arie), Entry(molto, molto))) :
        mb \in Phrases({Allegro, vivace}, MaxWords - 1),
        ti \in Phrases({Allegro, molto, vivace}, MaxWords)}
    \cup {DiffCall(mb, ti, Setting(syn, Entry(molto, molto))) :
        mb \in Phrases({Aria, Arie, Allegro}, MaxWords - 2),
        ti \in Phrases({Aria, Arie, Allegro}, MaxWords - 1),
        syn \in SynonymSettings}
    \cup {DiffCall(mb, ti, Setting(Entry(Aria, Arie), rep)) :
        mb \in Phrases({Aria, molto}, MaxWords - 2),
        ti \in Phrases({Aria, molto}, MaxWords - 1),
        rep \in ReplacementSettings}
    \cup {DiffCall(mb, ti, Setting(Entry(Aria, Arie), Entry(molto, molto))) :
        mb \in MarkedTexts \cup {Aria}, ti \in MarkedTexts \cup {Aria}}

InitDiff ==
    /\ Unused
    /\ args \in DiffCalls
    /\ result = NoResult

\* the title is compared with the catalogue text; diff_pair returns or raises
CallDiffPair ==
    /\ args.fn = "diff_pair"
    /\ ~result.returned
    /\ result' = [returned |-> TRUE,
                  diff |-> diff_pair(args.mb_item, args.title_item, args.options)]
    /\ UNCHANGED <<options, library, works_cache, parts, works_queue, work_listing, top,
                   top_works, trackback, partof, orphan_tracks, requests, inflight,
                   cwp_error, cwp_warning, seen, assembled, finalized, built, cwp_tags,
                   loads, aborted, last, auth_failed, failed_works, nfaults, args,
                   collection, xmlws, confirm, update_list>>

NextDiff == CallDiffPair

SpecDiff == InitDiff /\ [][NextDiff]_vars

\* ------------------------------------------ specification: string functions
\* a run of SpecStrings evaluates one of the string functions on arguments of
\* up to MaxLen items
LcsCalls ==
    {[fn |-> "longest_common_substring", s1 |-> s1, s2 |-> s2] :
        s1 \in ShortStrings, s2 \in ShortStrings}

\* the two lists and the window of start offsets of longest_common_sequence
LcsqCalls ==
    {[fn |-> "longest_common_sequence", list1 |-> list1, list2 |-> list2,
      minstart |-> minstart, maxstart |-> maxstart] :
        list1 \in ShortStrings, list2 \in ShortStrings,
        minstart \in 0..MaxLen, maxstart \in 0..MaxLen}

\* the greatest number whose numeral p of replace_roman_numerals matches,
\* M{0,4}: MMMMCMXCIX
MaxRoman == 4999

\* one decimal digit d written with the letters for one, five and ten
Digit(d, one, five, ten) ==
    IF d <= 3 THEN Repeat(one, d)
    ELSE IF d = 4 THEN <<one, five>>
    ELSE IF d <= 8 THEN <<five>> \o Repeat(one, d - 5)
    ELSE <<one, ten>>

\* the roman numeral of the number n
Numeral(n) ==
    Repeat("M", n \div 1000) \o Digit((n \div 100) % 10, "C", "D", "M")
        \o Digit((n \div 10) % 10, "X", "L", "C") \o Digit(n % 10, "I", "V", "X")

\* the numbers whose numerals stand in the texts of replace_roman_numerals
TextNumbers == (1..20) \cup {40, 49, 90, 400, 944, 1994, MaxRoman}

\* the marks p accepts after a numeral
NumeralMarks == {<<".">>, <<":">>, <<",">>, <<";">>}

\* a title with the numeral at its end, at its start before a mark, and two
\* numerals with a mark after each
NumeralLast(numeral, mark) == Aria \o <<" ">> \o numeral \o mark
NumeralFirst(numeral, mark) == numeral \o mark \o <<" ">> \o Aria
NumeralTwice(first, second) == first \o <<".", " ">> \o second \o <<".">>

\* from_roman is called with what p matched, capitals or small letters
RomanCalls ==
    {[fn |-> "from_roman", s |-> numeral] :
        numeral \in {Numeral(n) : n \in 1..MaxRoman}
                     \cup {Lower(Numeral(n)) : n \in 1..MaxRoman}}
    \cup {[fn |-> "replace_roman_numerals", s |-> text] :
            text \in {NumeralLast(numeral, mark) :
                          numeral \in {Numeral(n) : n \in TextNumbers}
                                       \cup {Lower(Numeral(n)) : n \in TextNumbers},
                          mark \in NumeralMarks \cup {<<>>}}
                      \cup {NumeralFirst(numeral, mark) :
                              numeral \in {Numeral(n) : n \in TextNumbers}
                                           \cup {Lower(Numeral(n)) : n \in TextNumbers},
                              mark \in NumeralMarks}
                      \cup {NumeralTwice(Numeral(m), Numeral(n)) : m \in 1..12, n \in 1..12}}

\* the greatest number of words of a title whose new words are marked
MaxTokens == 6

\* a word of a title with the blank after it, new or not
Token(new) == [bit |-> <<<<"a">>, <<" ">>>>, new |-> new]

\* ti_rich_list of every title of up to MaxTokens words
RichLists ==
    UNION {{[i \in 1..n |-> Token(flags[i])] : flags \in [1..n -> BOOLEAN]} : n \in 0..MaxTokens}

\* the values a user can give cwp_proximity and cwp_end_proximity
Proximities == 0..(cwp_proximity + 1)

\* diff_pair from "s = 0" to "ti_rich_list after gapping"
GappingCalls ==
    {[fn |-> "gapping", ti_rich_list |-> l, proximity |-> p, end_proximity |-> e] :
        l \in RichLists, p \in Proximities, e \in Proximities}

StringCalls == LcsCalls \cup LcsqCalls \cup RomanCalls \cup GappingCalls

InitStrings ==
    /\ Unused
    /\ args \in StringCalls
    /\ result = NoResult

\* longest_common_substring(s1, s2) returns
CallLongestCommonSubstring ==
    /\ args.fn = "longest_common_substring"
    /\ ~result.returned
    /\ result' = [returned |-> TRUE, value |-> longest_common_substring(args.s1, args.s2)]
    /\ UNCHANGED <<options, library, works_cache, parts, works_queue, work_listing, top,
                   top_works, trackback, partof, orphan_tracks, requests, inflight,
                   cwp_error, cwp_warning, seen, assembled, finalized, built, cwp_tags,
                   loads, aborted, last, auth_failed, failed_works, nfaults, args,
                   collection, xmlws, confirm, update_list>>

\* longest_common_sequence(list1, list2, minstart, maxstart) returns
CallLongestCommonSequence ==
    /\ args.fn = "longest_common_sequence"
    /\ ~result.returned
    /\ result' = [returned |-> TRUE,
                  value |-> longest_common_sequence(args.list1, args.list2,
                                                    args.minstart, args.maxstart)]
    /\ UNCHANGED <<options, library, works_cache, parts, works_queue, work_listing, top,
                   top_works, trackback, partof, orphan_tracks, requests, inflight,
                   cwp_error, cwp_warning, seen, assembled, finalized, built, cwp_tags,
                   loads, aborted, last, auth_failed, failed_works, nfaults, args,
                   collection, xmlws, confirm, update_list>>

\* from_roman(numerals) returns
CallFromRoman ==
    /\ args.fn = "from_roman"
    /\ ~result.returned
    /\ result' = [returned |-> TRUE, value |-> from_roman(args.s)]
    /\ UNCHANGED <<options, library, works_cache, parts, works_queue, work_listing, top,
                   top_works, trackback, partof, orphan_tracks, requests, inflight,
                   cwp_error, cwp_warning, seen, assembled, finalized, built, cwp_tags,
                   loads, aborted, last, auth_failed, failed_works, nfaults, args,
                   collection, xmlws, confirm, update_list>>

\* replace_roman_numerals(s) returns
CallReplaceRomanNumerals ==
    /\ args.fn = "replace_roman_numerals"
    /\ ~result.returned
    /\ result' = [returned |-> TRUE, value |-> replace_roman_numerals(args.s)]
    /\ UNCHANGED <<options, library, works_cache, parts, works_queue, work_listing, top,
                   top_works, trackback, partof, orphan_tracks, requests, inflight,
                   cwp_error, cwp_warning, seen, assembled, finalized, built, cwp_tags,
                   loads, aborted, last, auth_failed, failed_works, nfaults, args,
                   collection, xmlws, confirm, update_list>>

\* diff_pair has removed the singleton and filled the gaps of ti_rich_list
CallGapping ==
    /\ args.fn = "gapping"
    /\ ~result.returned
    /\ result' = [returned |-> TRUE,
                  singled |-> remove_singleton(args.ti_rich_list),
                  value |-> gapping(remove_singleton(args.ti_rich_list),
                                    args.proximity, args.end_proximity)]
    /\ UNCHANGED <<options, library, works_cache, parts, works_queue, work_listing, top,
                   top_works, trackback, partof, orphan_tracks, requests, inflight,
                   cwp_error, cwp_warning, seen, assembled, finalized, built, cwp_tags,
                   loads, aborted, last, auth_failed, failed_works, nfaults, args,
                   collection, xmlws, confirm, update_list>>

NextStrings ==
    \/ CallGapping
    \/ CallLongestCommonSubstring
    \/ CallLongestCommonSequence
    \/ CallFromRoman
    \/ CallReplaceRomanNumerals

SpecStrings == InitStrings /\ [][NextStrings]_vars

\* ------------------------------------------- specification: cached parents
\* the frames of recursive calls the interpreter allows before it raises
\* RecursionError (sys.getrecursionlimit()), cut down to a bound
MaxFrames == 4

\* the keys of a run of SpecAncestors, and self.works_cache with any parent
\* for any of them, a key itself and a key further down included
CacheOrder == <<<<"a">>, <<"b">>, <<"p">>>>
CacheKeys == Range(CacheOrder)
Caches == UNION {[D -> CacheKeys] : D \in SUBSET CacheKeys}

\* the parents of the cache that have no cached parent
TopsOf(cache) == Range(cache) \ DOMAIN cache

\* self.partof[album] as process_album builds it from the cache when every
\* key is listed
PartofOf(cache) ==
    [parentId \in Range(cache) |->
        SelectSeq(CacheOrder, LAMBDA w : w \in DOMAIN cache /\ cache[w] = parentId)]

AncestorCalls ==
    {[fn |-> "check_cache", works_cache |-> c, workId |-> w] :
        c \in Caches, w \in CacheKeys}
    \cup {[fn |-> "process_work_artists", works_cache |-> c, workId |-> w] :
            c \in Caches, w \in CacheKeys}
    \cup {[fn |-> "create_trackback", works_cache |-> c, workId |-> w] :
            c \in Caches, w \in CacheKeys}

\* a call of check_cache for a cached key, of process_work_artists for any
\* key, or of create_trackback for a top-level key has been entered
InitAncestors ==
    /\ Unused
    /\ args \in AncestorCalls
    /\ args.fn = "check_cache" => args.workId \in DOMAIN args.works_cache
    /\ args.fn = "create_trackback" => args.workId \in TopsOf(args.works_cache)
    /\ result = [returned |-> FALSE, raised |-> FALSE, frames |-> 1, workId |-> args.workId,
                 work_listing |-> <<>>, not_in_cache |-> <<>>, count |-> 0]

\* check_cache, the parent is cached: the function calls itself for it
CheckCacheRecurses ==
    /\ args.fn = "check_cache"
    /\ ~result.returned
    /\ args.works_cache[result.workId] \in DOMAIN args.works_cache
    /\ result.frames < MaxFrames
    /\ result' = [result EXCEPT
                     !.work_listing = AppendNew(@, args.works_cache[result.workId]),
                     !.frames = @ + 1,
                     !.workId = args.works_cache[result.workId]]
    /\ UNCHANGED <<options, library, works_cache, parts, works_queue, work_listing, top,
                   top_works, trackback, partof, orphan_tracks, requests, inflight,
                   cwp_error, cwp_warning, seen, assembled, finalized, built, cwp_tags,
                   loads, aborted, last, auth_failed, failed_works, nfaults, args,
                   collection, xmlws, confirm, update_list>>

\* check_cache, the call for the cached parent is one frame too many: the
\* interpreter raises RecursionError, which no frame catches
CheckCacheOverflows ==
    /\ args.fn = "check_cache"
    /\ ~result.returned
    /\ args.works_cache[result.workId] \in DOMAIN args.works_cache
    /\ result.frames = MaxFrames
    /\ result' = [result EXCEPT
                     !.work_listing = AppendNew(@, args.works_cache[result.workId]),
                     !.returned = TRUE,
                     !.raised = TRUE]
    /\ UNCHANGED <<options, library, works_cache, parts, works_queue, work_listing, top,
                   top_works, trackback, partof, orphan_tracks, requests, inflight,
                   cwp_error, cwp_warning, seen, assembled, finalized, built, cwp_tags,
                   loads, aborted, last, auth_failed, failed_works, nfaults, args,
                   collection, xmlws, confirm, update_list>>

\* check_cache, the parent is not cached: it is returned through every frame
CheckCacheReturns ==
    /\ args.fn = "check_cache"
    /\ ~result.returned
    /\ args.works_cache[result.workId] \notin DOMAIN args.works_cache
    /\ result' = [result EXCEPT
                     !.work_listing = AppendNew(@, args.works_cache[result.workId]),
                     !.not_in_cache = Append(@, args.works_cache[result.workId]),
                     !.returned = TRUE]
    /\ UNCHANGED <<options, library, works_cache, parts, works_queue, work_listing, top,
                   top_works, trackback, partof, orphan_tracks, requests, inflight,
                   cwp_error, cwp_warning, seen, assembled, finalized, built, cwp_tags,
                   loads, aborted, last, auth_failed, failed_works, nfaults, args,
                   collection, xmlws, confirm, update_list>>

\* process_work_artists, the key is cached: the function calls itself for
\* the parent
WorkArtistsRecurses ==
    /\ args.fn = "process_work_artists"
    /\ ~result.returned
    /\ result.workId \in DOMAIN args.works_cache
    /\ result.frames < MaxFrames
    /\ result' = [result EXCEPT
                     !.count = @ + 1,
                     !.frames = @ + 1,
                     !.workId = args.works_cache[result.workId]]
    /\ UNCHANGED <<options, library, works_cache, parts, works_queue, work_listing, top,
                   top_works, trackback, partof, orphan_tracks, requests, inflight,
                   cwp_error, cwp_warning, seen, assembled, finalized, built, cwp_tags,
                   loads, aborted, last, auth_failed, failed_works, nfaults, args,
                   collection, xmlws, confirm, update_list>>

\* process_work_artists, one frame too many
WorkArtistsOverflows ==
    /\ args.fn = "process_work_artists"
    /\ ~result.returned
    /\ result.workId \in DOMAIN args.works_cache
    /\ result.frames = MaxFrames
    /\ result' = [result EXCEPT !.count = @ + 1, !.returned = TRUE, !.raised = TRUE]
    /\ UNCHANGED <<options, library, works_cache, parts, works_queue, work_listing, top,
                   top_works, trackback, partof, orphan_tracks, requests, inflight,
                   cwp_error, cwp_warning, seen, assembled, finalized, built, cwp_tags,
                   loads, aborted, last, auth_failed, failed_works, nfaults, args,
                   collection, xmlws, confirm, update_list>>

\* process_work_artists, the key is not cached: every frame returns
WorkArtistsReturns ==
    /\ args.fn = "process_work_artists"
    /\ ~result.returned
    /\ result.workId \notin DOMAIN args.works_cache
    /\ result' = [result EXCEPT !.returned = TRUE]
    /\ UNCHANGED <<options, library, works_cache, parts, works_queue, work_listing, top,
                   top_works, trackback, partof, orphan_tracks, requests, inflight,
                   cwp_error, cwp_warning, seen, assembled, finalized, built, cwp_tags,
                   loads, aborted, last, auth_failed, failed_works, nfaults, args,
                   collection, xmlws, confirm, update_list>>

\* create_trackback for a top-level key of the album returns
CallCreateTrackback ==
    /\ args.fn = "create_trackback"
    /\ ~result.returned
    /\ result' = [returned |-> TRUE, raised |-> FALSE,
                  value |-> create_trackback(PartofOf(args.works_cache), <<>>, args.workId)]
    /\ UNCHANGED <<options, library, works_cache, parts, works_queue, work_listing, top,
                   top_works, trackback, partof, orphan_tracks, requests, inflight,
                   cwp_error, cwp_warning, seen, assembled, finalized, built, cwp_tags,
                   loads, aborted, last, auth_failed, failed_works, nfaults, args,
                   collection, xmlws, confirm, update_list>>

NextAncestors ==
    \/ CheckCacheRecurses
    \/ CheckCacheOverflows
    \/ CheckCacheReturns
    \/ WorkArtistsRecurses
    \/ WorkArtistsOverflows
    \/ WorkArtistsReturns
    \/ CallCreateTrackback

SpecAncestors == InitAncestors /\ [][NextAncestors]_vars

\* ------------------------------------------------- work collection plugin
\* list(members): the works of the set in a list (here in ascending order)
Least(members) == CHOOSE x \in members : \A y \in members : x <= y
RECURSIVE ListOf(_)
ListOf(members) ==
    IF members = {} THEN <<>>
    ELSE <<Least(members)>> \o ListOf(members \ {Least(members)})

\* WorksXmlWebService.collection_request: the ids of one path after the other
RECURSIVE collection_request(_, _)
collection_request(members, sub_limit) ==
    IF members = <<>> THEN <<>>
    ELSE <<Slice(members, 0, sub_limit)>>
             \o collection_request(Slice(members, sub_limit, Len(members)), sub_limit)

\* works_xmlws.put(host, port, path, "", partial(self._add_finished, members,
\* callback)) for every path: the request carries the ids of its path, its
\* handler is bound to all members of the call
PutRequests(call, members, submission_limit) ==
    {[method |-> "PUT", call |-> call, bound |-> members,
      ids |-> collection_request(ListOf(members), submission_limit)[i]] :
        i \in DOMAIN collection_request(ListOf(members), submission_limit)}

\* delete_from_collection(self.id, list(members), partial(self._remove_finished,
\* members, callback))
DeleteRequest(call, members) ==
    [method |-> "DELETE", call |-> call, bound |-> members, ids |-> ListOf(members)]

\* Collection.add_works, "if members:"; st holds the collection and the
\* requests of the web service
add_members(st, call, members, submission_limit) ==
    IF members = {} THEN st
    ELSE [collection |-> [st.collection EXCEPT !.pending = @ \cup members],
          xmlws |-> st.xmlws \cup PutRequests(call, members, submission_limit)]

\* Collection.add_works
Collection_add_works(st, call, members, submission_limit) ==
    add_members(st, call, members \ st.collection.pending, submission_limit)

\* Collection.remove_works, "if members:"
remove_members(st, call, members) ==
    IF members = {} THEN st
    ELSE [collection |-> [st.collection EXCEPT !.pending = @ \cup members],
          xmlws |-> st.xmlws \cup {DeleteRequest(call, members)}]

\* Collection.remove_works
Collection_remove_works(st, call, members) ==
    remove_members(st, call, members \ st.collection.pending)

\* Collection._add_finished(ids, callback, document, reply, error), ids being
\* what the handler of the request is bound to
Collection_add_finished(c, req, error) ==
    IF error THEN [c EXCEPT !.pending = @ \ req.bound]
    ELSE [c EXCEPT !.pending = @ \ req.bound,
                   !.works = @ \cup req.bound,
                   !.size = @ + Cardinality(req.bound)]

\* Collection._remove_finished(ids, callback, document, reply, error)
Collection_remove_finished(c, req, error) ==
    IF error THEN [c EXCEPT !.pending = @ \ req.bound]
    ELSE [c EXCEPT !.pending = @ \ req.bound,
                   !.works = @ \ req.bound,
                   !.size = @ - Cardinality(req.bound)]

\* the PartLevels state, which the work collection plugin does not touch
PartLevelsVars ==
    <<options, library, works_cache, parts, works_queue, work_listing, top, top_works,
      trackback, partof, orphan_tracks, requests, inflight, cwp_error, cwp_warning, seen,
      assembled, finalized, built, cwp_tags, loads, aborted, last, auth_failed,
      failed_works, nfaults>>

\* --------------------------------------------- specification: collection
\* the works of a run of SpecCollection, the calls of add_works and
\* remove_works made in it
MaxWorks == 3
MaxCalls == 2

\* SUBMISSION_LIMIT, and the values the user sets it to in a run
SUBMISSION_LIMIT == 200
Limits == {1, 2, SUBMISSION_LIMIT}

CollectionWorks == 1..MaxWorks

\* what a run has done so far: the calls made, the works they have sent for
\* adding and for removal, the calls that sent a request, the runs of the
\* callback without and with an error
NoTally == [returned |-> FALSE, calls |-> 0, added |-> 0, removed |-> 0, submits |-> 0,
            callbacks |-> 0, errors |-> 0, sent |-> <<>>]

\* Collection(id, name, size): nothing pending, no works, the size the server
\* has reported
InitCollection ==
    /\ PartLevelsUnused
    /\ \E size \in 0..MaxWorks :
           /\ collection = [pending |-> {}, size |-> size, works |-> {}]
           /\ args = [fn |-> "Collection", size |-> size]
    /\ xmlws = {}
    /\ confirm = [member_set |-> {}]
    /\ update_list = <<>>
    /\ result = NoTally

\* collection.add_works(members, callback, submission_limit)
CallAddWorks ==
    \E members \in SUBSET CollectionWorks : \E submission_limit \in Limits :
        /\ result.calls < MaxCalls
        /\ collection' = Collection_add_works([collection |-> collection, xmlws |-> xmlws],
                                              result.calls, members,
                                              submission_limit).collection
        /\ xmlws' = Collection_add_works([collection |-> collection, xmlws |-> xmlws],
                                         result.calls, members, submission_limit).xmlws
        /\ result' = [result EXCEPT
                         !.calls = @ + 1,
                         !.added = @ + Cardinality(members \ collection.pending),
                         !.submits = @ + (IF members \subseteq collection.pending
                                          THEN 0 ELSE 1),
                         !.sent = Append(@, [members |-> members \ collection.pending,
                                             submission_limit |-> submission_limit,
                                             paths |-> collection_request(
                                                 ListOf(members \ collection.pending),
                                                 submission_limit)])]
        /\ UNCHANGED <<PartLevelsVars, args, confirm, update_list>>

\* collection.remove_works(members, callback)
CallRemoveWorks ==
    \E members \in SUBSET CollectionWorks :
        /\ result.calls < MaxCalls
        /\ collection' = Collection_remove_works([collection |-> collection, xmlws |-> xmlws],
                                                 result.calls, members).collection
        /\ xmlws' = Collection_remove_works([collection |-> collection, xmlws |-> xmlws],
                                            result.calls, members).xmlws
        /\ result' = [result EXCEPT
                         !.calls = @ + 1,
                         !.removed = @ + Cardinality(members \ collection.pending),
                         !.submits = @ + (IF members \subseteq collection.pending
                                          THEN 0 ELSE 1)]
        /\ UNCHANGED <<PartLevelsVars, args, confirm, update_list>>

\* the web service answers a PUT: _add_finished runs and calls the callback,
\* with the error if there is one (process_collection, when it is the
\* callback, finds update_list empty)
AddFinished ==
    \E req \in xmlws : \E error \in BOOLEAN :
        /\ req.method = "PUT"
        /\ xmlws' = xmlws \ {req}
        /\ collection' = Collection_add_finished(collection, req, error)
        /\ result' = IF error THEN [result EXCEPT !.errors = @ + 1]
                     ELSE [result EXCEPT !.callbacks = @ + 1]
        /\ UNCHANGED <<PartLevelsVars, args, confirm, update_list>>

\* the web service answers a DELETE: _remove_finished runs and calls the
\* callback unless there is an error
RemoveFinished ==
    \E req \in xmlws : \E error \in BOOLEAN :
        /\ req.method = "DELETE"
        /\ xmlws' = xmlws \ {req}
        /\ collection' = Collection_remove_finished(collection, req, error)
        /\ result' = IF error THEN [result EXCEPT !.errors = @ + 1]
                     ELSE [result EXCEPT !.callbacks = @ + 1]
        /\ UNCHANGED <<PartLevelsVars, args, confirm, update_list>>

NextCollection ==
    \/ CallAddWorks
    \/ CallRemoveWorks
    \/ AddFinished
    \/ RemoveFinished

SpecCollection == InitCollection /\ [][NextCollection]_vars

\* ----------------------------------------- specification: confirm dialog
\* get_collection_members, limit: the works asked for in one request
ChunkLimit == 100

\* the most requests get_collection_members sends in a run of SpecConfirm
MaxChunks == 3

\* the sizes of the collection: the works on the server are 1..size
Sizes == {0, 1, ChunkLimit, ChunkLimit + 1, (MaxChunks - 1) * ChunkLimit + 1}

\* the works the user has selected; 0 is in no collection
WorkLists == SUBSET {0, 1, ChunkLimit + 1}

\* get_collection_members, chunks
Chunks(size) == (size + ChunkLimit - 1) \div ChunkLimit

\* get_collection_members, the request of every chunk with what its handler is
\* bound to: end is set for the first chunk
GetRequests(size) ==
    {[method |-> "GET", chunk |-> chunk, offset |-> chunk * ChunkLimit,
      end |-> chunk = 0,
      chunk_size |-> IF chunk = Chunks(size) - 1 THEN size - chunk * ChunkLimit
                     ELSE ChunkLimit] :
        chunk \in 0..(Chunks(size) - 1)}

\* ConfirmDialog.process_node for the answer to a request: the first
\* min(count, chunk_size) works of the page that starts after offset
process_node(req, count) == {req.offset + k : k \in 1..Min(count, req.chunk_size)}

\* confirm_dialog with the answer of the user: the selected works that are not
\* members are added if the user accepts; process_collection, called
\* otherwise, finds update_list empty
confirm_dialog(st, call, member_set, work_list, confirmation, submission_limit) ==
    IF confirmation = 1 /\ work_list \ member_set # {}
    THEN Collection_add_works(st, call, work_list \ member_set, submission_limit)
    ELSE st

\* what a run of SpecConfirm has done: the tally of the collection, the runs
\* of the callback of get_collection_members and the member_set given to each
NoDialogTally ==
    [returned |-> FALSE, calls |-> 0, added |-> 0, removed |-> 0, submits |-> 0,
     callbacks |-> 0, errors |-> 0, sent |-> <<>>, dialogs |-> 0, given |-> <<>>]

\* AddWorkCollection.callback has entered the selected collection in
\* update_list; PROVIDE_ANALYSIS is set
InitConfirm ==
    /\ PartLevelsUnused
    /\ args \in {[fn |-> "process_collection", size |-> size, work_list |-> work_list,
                  submission_limit |-> submission_limit] :
                    size \in Sizes, work_list \in WorkLists, submission_limit \in Limits}
    /\ collection = [pending |-> {}, size |-> args.size, works |-> {}]
    /\ xmlws = {}
    /\ confirm = [member_set |-> {}]
    /\ update_list = <<[work_list |-> args.work_list, diff |-> args.work_list]>>
    /\ result = NoDialogTally

\* process_collection(): a ConfirmDialog is made for the first entry of
\* update_list, get_collection_members sends its requests, the entry is deleted
ProcessCollection ==
    /\ args.fn = "process_collection"
    /\ update_list # <<>>
    /\ confirm' = [member_set |-> {}]
    /\ xmlws' = xmlws \cup GetRequests(collection.size)
    /\ update_list' = Tail(update_list)
    /\ result' = [result EXCEPT !.calls = @ + 1]
    /\ UNCHANGED <<PartLevelsVars, args, collection>>

\* add_collection_members with an error, or a document without collection:
\* nothing is merged and the callback is not called
MembersFail ==
    \E req \in xmlws :
        /\ req.method = "GET"
        /\ xmlws' = xmlws \ {req}
        /\ result' = [result EXCEPT !.errors = @ + 1]
        /\ UNCHANGED <<PartLevelsVars, args, collection, confirm, update_list>>

\* add_collection_members for a chunk that is not bound to end: its works are
\* merged into member_set
MembersArrive ==
    \E req \in xmlws :
        /\ req.method = "GET"
        /\ ~req.end
        /\ xmlws' = xmlws \ {req}
        /\ confirm' = [confirm EXCEPT !.member_set = @ \cup process_node(req, args.size)]
        /\ UNCHANGED <<PartLevelsVars, args, collection, update_list, result>>

\* add_collection_members for the chunk bound to end: its works are merged and
\* the callback, confirm_dialog, runs with member_set
LastMembersArrive ==
    \E req \in xmlws : \E confirmation \in {0, 1} :
        /\ req.method = "GET"
        /\ req.end
        /\ confirm' = [confirm EXCEPT !.member_set = @ \cup process_node(req, args.size)]
        /\ collection' = confirm_dialog([collection |-> collection, xmlws |-> xmlws \ {req}],
                                        result.calls,
                                        confirm.member_set \cup process_node(req, args.size),
                                        args.work_list, confirmation,
                                        args.submission_limit).collection
        /\ xmlws' = confirm_dialog([collection |-> collection, xmlws |-> xmlws \ {req}],
                                   result.calls,
                                   confirm.member_set \cup process_node(req, args.size),
                                   args.work_list, confirmation,
                                   args.submission_limit).xmlws
        /\ result' = [result EXCEPT
                         !.dialogs = @ + 1,
                         !.given = Append(@, confirm.member_set
                                               \cup process_node(req, args.size))]
        /\ UNCHANGED <<PartLevelsVars, args, update_list>>

NextConfirm ==
    \/ ProcessCollection
    \/ MembersFail
    \/ MembersArrive
    \/ LastMembersArrive
    \/ AddFinished

SpecConfirm == InitConfirm /\ [][NextConfirm]_vars

\* ------------------------------------------------------------ properties
\* the lookups of a work id that the web service has not answered yet
RequestsFor(w) == {r \in BagToSet(inflight) : r.workId = w}

Outstanding(w) == BagCardinality([r \in RequestsFor(w) |-> CopiesIn(r, inflight)])

\* the tracks of a release parked in the waiter list of a work id
WaitersOf(queue, w, al) == {i \in DOMAIN queue[w] : queue[w][i][1] = al}

\* C1: in every interleaving of track arrivals and lookup completions at most
\* one request is outstanding for a work id, and a track joining the waiters
\* of an id that is already requested leaves the outstanding request as it is
\* and issues no second one.
C1_OneRequestPerWork ==
    /\ [](\A w \in Works : Outstanding(w) <= 1)
    /\ [][\A w \in Works :
            (works_queue[w] # <<>> /\ Len(works_queue'[w]) > Len(works_queue[w]))
                => /\ SubSeq(works_queue'[w], 1, Len(works_queue[w])) = works_queue[w]
                   /\ RequestsFor(w)' = RequestsFor(w)
                   /\ Outstanding(w)' = 1]_vars

\* tracks of two releases wait for the same id, one request being outstanding
C1_Witness ==
    \E w \in Works :
        /\ WaitersOf(works_queue, w, "A") # {}
        /\ WaitersOf(works_queue, w, "B") # {}
        /\ Outstanding(w) = 1

\* the track waits for the lookup of the work id
Parked(t, w) == t \in Range(works_queue[w])

\* the parents the catalogue names for the work id are cached for the key of
\* the track
Received(t, w) ==
    /\ library[t] \in DOMAIN works_cache
    /\ Range(Catalogue[w]) \subseteq Range(works_cache[library[t]])

Resolved == last.workId # "" /\ last.code = 0

\* the counter of the release, all of whose tracks have been seen, reaches
\* zero in this step
Drained(al) == requests[al] > 0 /\ requests'[al] = 0 /\ seen[al] = TotalTracks(al)

\* C3: when a reply releases waiters of a release all of whose tracks have
\* been seen, and the counter of the release reaches zero thereby,
\* process_album is performed for that release in the same callback, for each
\* of the releases whose waiters the reply released.
C3_AssembledWhenDrained ==
    [][\A al \in Albums :
          (Resolved' /\ WaitersOf(works_queue, last'.workId, al) # {} /\ Drained(al))
              => assembled'[al] = assembled[al] + 1]_vars

\* the last step ran the callback of a lookup that failed for good: an error
\* reply to a request that had used up the retries
Failed == last.workId # "" /\ last.code # 0 /\ last.tries >= options.retries

\* the number of times the tag value holds the annotation
Count(tagvalue, source) == Cardinality({i \in DOMAIN tagvalue : tagvalue[i] = source})

\* nothing is left that could start process_album for the release: its tracks
\* have all been seen, none of them waits for a lookup, its counter is zero,
\* and its hierarchy has never been assembled
Stuck(al) ==
    /\ seen[al] = TotalTracks(al)
    /\ requests[al] = 0
    /\ \A w \in Works : WaitersOf(works_queue, w, al) = {}
    /\ assembled[al] = 0

\* C4: a release with a track whose lookup failed for good still completes
\* its hierarchy processing: it is never left with all its tracks seen, no
\* lookup awaited and its hierarchy not assembled.
C4_FailureCompletesRelease ==
    \A t \in Tracks : ERR_RETRIES \in Range(cwp_error[t]) => ~Stuck(t[1])

\* C5: with 6 retries, the seventh consecutive failure of the lookup of a work
\* id leaves exactly one terminal error annotation on each track that waited
\* for it, and no request for that id outstanding.
C5_OneTerminalAnnotation ==
    (Failed /\ options.retries = DefaultRetries)
        => /\ last.tries = DefaultRetries
           /\ \A t \in Range(last.tuples) : Count(cwp_error[t], ERR_RETRIES) = 1
           /\ Outstanding(last.workId) = 0

\* the last step ran the callback of a lookup that met an error other than
\* the authentication error before the retries were used up
Retried == last.workId # "" /\ last.code = OTHER_ERROR /\ last.tries < options.retries

\* the tracks of the release parked in any waiter list
NParked(queue, al) ==
    Cardinality(UNION {{<<w, i>> : i \in WaitersOf(queue, w, al)} : w \in Works})

C7_RetriesStayUnauthenticated ==
    \A r \in BagToSet(inflight) :
        (r.workId \in auth_failed /\ r.tries > 0) => ~r.login

\* C8: the counter of a release goes up by one for each of its tracks that a
\* step parks in a waiter list and down by one for each of its tracks that an
\* answered or given-up lookup releases from one.
C8_CounterFollowsWaiters ==
    [][\A al \in Albums :
          requests'[al] - requests[al]
              = NParked(works_queue', al) - NParked(works_queue, al)]_vars

\* C9: process_album runs for a release only in a state where the counter of
\* the release is zero and its last track has been seen.
C9_AssembledOnlyWhenComplete ==
    [][\A al \in Albums :
          assembled'[al] > assembled[al]
              => (requests'[al] = 0 /\ seen'[al] = TotalTracks(al))]_vars

\* the keys of the node table that hold the work id
KeysOf(w) == {k \in DOMAIN parts : w \in Range(k)}

\* C10, as claimed: after the lookup of a work was given up, no key of the
\* work has a cached parent, none is marked top-level, and none is in the
\* top-level list of any release.
C10_FailedWorkLeftOut ==
    \A w \in failed_works : \A k \in KeysOf(w) :
        /\ k \notin DOMAIN works_cache
        /\ ~parts[k].no_parent
        /\ \A al \in Albums : k \notin Range(top[al])

\* C10, amended: giving up a lookup records nothing: the cache, the node
\* table with its parents, top-level marks and metadata, and the top-level
\* lists are after the callback what they were before it.  The work is not
\* left out of tree assembly thereby: when a release that lists a key of the
\* work is assembled and no parent is cached for the key, the key is put in
\* the top-level list of the release.
C10_FailureRecordsNothing ==
    /\ [][Failed' => /\ works_cache' = works_cache
                     /\ parts' = parts
                     /\ top' = top
                     /\ top_works' = top_works]_vars
    /\ [][\A al \in Albums :
            assembled'[al] > assembled[al]
                => \A w \in failed_works' : \A k \in KeysOf(w) :
                       (k \in Range(work_listing'[al]) /\ k \notin DOMAIN works_cache')
                           => k \in Range(top'[al])]_vars

\* the lookup of a work was given up, the release of the waiting track has
\* been assembled since, and the key of the work, with no parent cached and
\* no top-level mark, heads a tree of the release
C10_Witness ==
    \E w \in failed_works : \E al \in Albums :
        /\ assembled[al] > 0
        /\ <<w>> \in DOMAIN parts
        /\ <<w>> \notin DOMAIN works_cache
        /\ ~parts[<<w>>].no_parent
        /\ parts[<<w>>].meta = <<>>
        /\ <<w>> \in Range(top[al])

\* the last step ran the callback of a lookup that was answered, without
\* error, by a document that lacks the work element
Malformed == last.workId # "" /\ last.code = 0 /\ last.reply # "ok"

\* C11: the callback of a lookup answered by a document without the expected
\* structure ends without exception, leaves the error annotation on every
\* track that waited, changes neither the cache nor the parents and metadata
\* of the nodes, empties the waiter list and takes each waiter off the counter
\* of its release.
C11_MalformedContinues ==
    [][Malformed' =>
          /\ aborted' = aborted
          /\ \A t \in Range(last'.tuples) : ERR_FORMAT \in Range(cwp_error'[t])
          /\ works_cache' = works_cache
          /\ \A k \in DOMAIN parts : /\ k \in DOMAIN parts'
                                     /\ parts'[k].parent = parts[k].parent
                                     /\ parts'[k].meta = parts[k].meta
          /\ works_queue'[last'.workId] = <<>>
          /\ \A al \in Albums :
                 requests'[al] = requests[al]
                                 - Cardinality(WaitersOf(works_queue, last'.workId, al))]_vars

\* the step moves the node of the key prev to the combined key new
Merged(prev, new) ==
    /\ prev \in DOMAIN parts /\ prev \notin DOMAIN parts'
    /\ new \in DOMAIN parts' /\ new \notin DOMAIN parts
    /\ Range(prev) \subseteq Range(new)

\* C12: after a step that merges a parent key into a combined key, no work
\* has the old key as its cached parent, the parent entry of the old key is
\* held under the combined key, and no release lists the old key.
C12_MergeRepointsAll ==
    [][\A prev \in DOMAIN parts : \A new \in DOMAIN parts' :
          Merged(prev, new) =>
              /\ \A k \in DOMAIN works_cache' : works_cache'[k] # prev
              /\ prev \notin DOMAIN works_cache'
              /\ prev \in DOMAIN works_cache => new \in DOMAIN works_cache'
              /\ \A al \in Albums : prev \notin Range(work_listing'[al])]_vars

IsPrefix(s, t) == Len(s) <= Len(t) /\ SubSeq(t, 1, Len(s)) = s

\* the waiters a step adds to the waiter list of a work id
Added(w) == SubSeq(works_queue'[w], Len(works_queue[w]) + 1, Len(works_queue'[w]))

\* C14: the waiter list of a work id only grows at its end, a retry leaves it
\* in the same order, and the callback that answers or gives up the lookup
\* takes the whole list in that order: the waiters it parks on the ids of the
\* parent follow one another there as they did in the list.
C14_ArrivalOrder ==
    [][\A w \in Works :
          /\ \/ IsPrefix(works_queue[w], works_queue'[w])
             \/ /\ last'.workId = w
                /\ last'.tuples = works_queue[w]
                /\ works_queue'[w] = <<>>
          /\ (last'.workId # "" /\ last'.workId # w)
                 => \A i \in DOMAIN Added(w) : \A j \in DOMAIN Added(w) :
                        i < j => IndexOf(last'.tuples, Added(w)[i])
                                     <= IndexOf(last'.tuples, Added(w)[j])]_vars

\* a lookup that was retried has been answered, and the two tracks that waited
\* for it wait for the parent in the order in which they arrived
C14_Witness ==
    /\ Resolved
    /\ last.tries >= 1
    /\ Len(last.tuples) >= 2
    /\ last.tuples[1] # last.tuples[2]
    /\ Catalogue[last.workId] # <<>>
    /\ works_queue[Catalogue[last.workId][1]] = last.tuples

\* C16: a node and a cached relation, once created, stay.  A node counts as
\* kept if, after the step, its key or a combined key holding all the
\* identifiers of its key has a node with its parent, its top-level mark and
\* its names; a cached parent counts as kept if the key stays cached with at
\* least the same identifiers, which is asked for only while the cache is in
\* use.
C16_NeverRemoved ==
    [][/\ \A k \in DOMAIN parts :
             \E n \in DOMAIN parts' :
                 /\ Range(k) \subseteq Range(n)
                 /\ Range(parts[k].parent) \subseteq Range(parts'[n].parent)
                 /\ parts[k].no_parent => parts'[n].no_parent
                 /\ Range(parts[k].name) \subseteq Range(parts'[n].name)
       /\ options.use_cache =>
              \A k \in DOMAIN works_cache :
                  /\ k \in DOMAIN works_cache'
                  /\ Range(works_cache[k]) \subseteq Range(works_cache'[k])]_vars

\* no element appears twice in the list
NoRepeat(s) == \A i \in DOMAIN s : \A j \in DOMAIN s : s[i] = s[j] => i = j

\* C17: the names and the metadata list (tags, key, dates) held for a key
\* change only by elements being added at the end: what is held stays, in
\* its order, and nothing is held twice.
C17_UnionOnly ==
    [][\A k \in DOMAIN parts :
          k \in DOMAIN parts' =>
              /\ IsPrefix(parts[k].name, parts'[k].name)
              /\ IsPrefix(parts[k].meta, parts'[k].meta)
              /\ NoRepeat(parts'[k].name)
              /\ NoRepeat(parts'[k].meta)]_vars

\* C20: a step that runs process_album for a release leaves the inverse
\* listing, the trackback, the work listing, the top-level list and the list
\* of orphan tracks of the release empty.
C20_ClearedWhenFinished ==
    [][\A al \in Albums :
          assembled'[al] > assembled[al]
              => /\ partof'[al] = <<>>
                 /\ trackback'[al] = <<>>
                 /\ work_listing'[al] = <<>>
                 /\ top'[al] = <<>>
                 /\ orphan_tracks'[al] = <<>>]_vars

\* every track has been delivered and every lookup has been answered
Quiescent == inflight = EmptyBag /\ \A al \in Albums : seen[al] = TotalTracks(al)

\* the identifiers the catalogue names as parents of the works of a key
ParentSet(ids) == UNION {Range(Catalogue[w]) : w \in ids}

\* the identifiers of the top-level work above the works of a key
RECURSIVE TopSet(_)
TopSet(ids) == IF ParentSet(ids) = {} THEN ids ELSE TopSet(ParentSet(ids))

\* the tracks that have works
WithWorks == {t \in Tracks : library[t] # <<>>}

\* C13: once every track has arrived and every lookup has been answered, no
\* callback having raised an exception, the cache holds for the key of every
\* track the parents the catalogue names, and every track has the top-level
\* work the catalogue leads to, in whatever order the tracks arrived and the
\* lookups were answered; identifiers are compared as sets, so that sibling
\* order does not count.
C13_OrderIndependent ==
    (Quiescent /\ ~aborted) =>
        /\ {<<Range(k), Range(works_cache[k])>> : k \in DOMAIN works_cache}
               = {<<Range(library[t]), ParentSet(Range(library[t]))>> : t \in WithWorks}
        /\ \A t \in WithWorks : Range(top_works[t]) = TopSet(Range(library[t]))


\* the nodes below a node of a built tree
Children(b, k) == {b.tree[k].children[i] : i \in DOMAIN b.tree[k].children}

\* the largest depth among the children of a node that has children
MaxChildDepth(b, k) ==
    CHOOSE d \in {b.tree[c].depth : c \in Children(b, k)} :
        \A c \in Children(b, k) : b.tree[c].depth <= d

\* C19: in every trackback tree built for a release the root has height 0,
\* every child has the height of its parent plus one, a node has depth 0
\* exactly if it has no children, and the depth of a node with children is one
\* more than the largest depth among its children
C19_HeightAndDepth ==
    \A al \in Albums : \A i \in DOMAIN built[al] :
        /\ built[al][i].tree[built[al][i].top].height = 0
        /\ \A k \in DOMAIN built[al][i].tree :
               /\ \A c \in Children(built[al][i], k) :
                      built[al][i].tree[c].height = built[al][i].tree[k].height + 1
               /\ built[al][i].tree[k].depth = 0 <=> Children(built[al][i], k) = {}
               /\ Children(built[al][i], k) # {} =>
                      built[al][i].tree[k].depth = 1 + MaxChildDepth(built[al][i], k)

\* a tree was built whose root has a deeper child followed by a leaf
C19_Witness ==
    \E al \in Albums : \E i \in DOMAIN built[al] :
        /\ Len(built[al][i].tree[built[al][i].top].children) >= 2
        /\ built[al][i].tree[built[al][i].tree[built[al][i].top].children[1]].depth >= 1
        /\ built[al][i].tree[built[al][i].tree[built[al][i].top].children[2]].depth = 0

\* the whole chain of ancestors of a key is in the cache: following the cached
\* parents from the key ends at a key known to have no parent
RECURSIVE ChainCached(_)
ChainCached(k) ==
    IF k \in DOMAIN works_cache
    THEN ChainCached(works_cache[k])
    ELSE k \in DOMAIN parts /\ parts[k].no_parent

\* the same for every track of a release that has works
AllCached(al) == \A t \in Tracks : t[1] = al /\ library[t] # <<>> => ChainCached(library[t])

\* the level assignments of a run of process_album: <<track, n, key>> says
\* that the key is the work of the track n levels above the work of the track
LevelsOf(trees) ==
    UNION {UNION {{<<t, trees[i].tree[p[1]].height - trees[i].tree[p[2]].height, p[2]>> :
                      t \in Range(trees[i].tree[p[1]].meta)} :
                  p \in {q \in (DOMAIN trees[i].tree) \X (DOMAIN trees[i].tree) :
                            q[1] \in TreeKeys(trees[i].tree, q[2])}} :
           i \in DOMAIN trees}

\* a track of a release that was loaded before is delivered again
Redelivered(al) == loads[al] >= 1 /\ seen'[al] = seen[al] + 1

\* C15: with the works cache in use, when the tracks of a release are
\* delivered again and the whole chain of ancestors of each is in the cache,
\* no lookup is issued, the counters of outstanding requests stay as they are,
\* and the assembly of the release gives the level assignments of its
\* earlier assembly
C15_RerunFromCache ==
    [][\A al \in Albums :
          (options.use_cache /\ Redelivered(al) /\ AllCached(al)) =>
              /\ inflight' = inflight
              /\ requests' = requests
              /\ assembled'[al] > assembled[al] => LevelsOf(built'[al]) = LevelsOf(built[al])]_vars

\* C18: no key of the cache and no cached parent holds an identifier twice
C18_NoIdTwice ==
    \A k \in DOMAIN works_cache : NoRepeat(k) /\ NoRepeat(works_cache[k])

\* a key that holds the recording id of a track: the key of the level-0 node
\* made up for a partial recording
ShadowKey(k) == \E i \in DOMAIN k : \E t \in Tracks : k[i] = Recording(t)

\* C21: with the works cache option off, once a release has been assembled
\* the cache holds no node and no parent for the recording key of any of its
\* partial recordings
C21_ShadowNotKept ==
    [][\A al \in Albums :
          (~options.use_cache /\ assembled'[al] > assembled[al]) =>
              \A k \in Range(work_listing'[al]) :
                  ShadowKey(k) => k \notin DOMAIN works_cache' /\ k \notin DOMAIN parts']_vars

\* C27: between callbacks the counter of each release is the number of
\* entries of its tracks in the waiter lists of all work ids, and is not
\* negative
C27_CounterIsWaiters ==
    \A al \in Albums : requests[al] = NParked(works_queue, al) /\ requests[al] >= 0

\* C28: a work id has waiters exactly while a request for it is outstanding,
\* and with a web service that answers no waiter stays parked
C28_WaitersFlushed ==
    /\ [](\A w \in Works : works_queue[w] # <<>> <=> Outstanding(w) >= 1)
    /\ []<>(\A w \in Works : works_queue[w] = <<>>)

\* tracks of two releases are parked on the parent of their work, whose
\* lookup is outstanding
C28_Witness ==
    \E w \in Works :
        /\ Len(works_queue[w]) >= 2
        /\ Outstanding(w) = 1
        /\ \E t \in Range(works_queue[w]) : w \notin Range(library[t])

\* C29: when a release is assembled, no key is both marked as having no
\* parent and cached with a parent; a key of several ids is marked only if
\* the catalogue names no parent for any of them
C29_TopHasNoParent ==
    [][\A al \in Albums :
          assembled'[al] > assembled[al] =>
              \A k \in DOMAIN parts' :
                  parts'[k].no_parent =>
                      /\ k \notin DOMAIN works_cache'
                      /\ \A i \in DOMAIN k : k[i] \in Works => Catalogue[k[i]] = <<>>]_vars

\* the cached parent of a key, <<>> if none is cached
CachedParent(cache, k) == IF k \in DOMAIN cache THEN cache[k] ELSE <<>>

\* the level tags of the tracks of release al agree with the trees built for
\* it in this step and with the cached parent relation
LevelsAgree(al) ==
    \A i \in DOMAIN built'[al] : \A k \in DOMAIN built'[al][i].tree :
        \A t \in Range(built'[al][i].tree[k].meta) :
            /\ cwp_tags'[t].part_levels = built'[al][i].tree[k].height
            /\ 0..cwp_tags'[t].part_levels \subseteq DOMAIN cwp_tags'[t].workid
            /\ cwp_tags'[t].workid[0] = k
            /\ \A n \in 0..(cwp_tags'[t].part_levels - 1) :
                   cwp_tags'[t].workid[n + 1]
                       = CachedParent(works_cache', cwp_tags'[t].workid[n])
            /\ cwp_tags'[t].workid[cwp_tags'[t].part_levels] = built'[al][i].top
            /\ cwp_tags'[t].top = built'[al][i].top

\* C30: when a release has been assembled, for every track of a node at
\* height h of one of its trees, ~cwp_workid_0 is the key of the node, the id
\* at level n + 1 is the cached parent of the id at level n for every n < h,
\* the id at level h is the top work of the tree, and ~cwp_part_levels is h
C30_LevelsFollowCache ==
    [][\A al \in Albums : assembled'[al] > assembled[al] => LevelsAgree(al)]_vars

\* C26: for a list of two or more strings, what turbo_lcs returns by the
\* standard algorithm is a longest substring common to all the strings, which
\* is what the suffix tree method returns
C26_PairwiseIsLongestCommon ==
    (/\ args.fn = "turbo_lcs"
     /\ result.returned
     /\ Len(args.multi_list) >= 2
     /\ ~UseSuffixTree(args.multi_list))
        => result.value \in LongestCommon(args.multi_list)

\* diff_pair has been called with the texts and has returned or raised
Compared(mb_item, title_item) ==
    /\ args.fn = "diff_pair"
    /\ result.returned
    /\ args.mb_item = mb_item
    /\ args.title_item = title_item

\* diff_pair has returned None
Empty(diff) == ~diff.raised /\ diff.none

\* diff_pair has returned the text
Residual(diff, text) == ~diff.raised /\ ~diff.none /\ diff.value = text

\* the pair of the two spellings is the only synonym, in either order, and no
\* replacement changes a word
SynonymPair ==
    /\ args.fn = "diff_pair"
    /\ args.options.cwp_synonyms \in {Entry(Aria, Arie), Entry(Arie, Aria)}
    /\ args.options.cwp_replacements = Entry(molto, molto)

\* C24: with the pair of Aria and Arie among the synonyms, a title of one of
\* the two spellings adds nothing to a catalogue text of the other or of the
\* same spelling; the title "Allegro" is returned whole for either of them;
\* and for the catalogue text "Allegro" a title word of either spelling is
\* returned as the title spells it, alone or after "Allegro"
C24_SynonymsEqualAndReversed ==
    SynonymPair =>
        \A a \in {Aria, Arie} : \A b \in {Aria, Arie} :
            /\ Compared(a, b) => Empty(result.diff)
            /\ Compared(a, Allegro) => Residual(result.diff, Allegro)
            /\ Compared(Allegro, b) => Residual(result.diff, b)
            /\ Compared(Allegro, Allegro \o <<" ">> \o b) => Residual(result.diff, b)

C24_witness ==
    /\ SynonymPair
    /\ args.options.cwp_synonyms = Entry(Aria, Arie)
    /\ Compared(Arie, Aria)
    /\ Empty(result.diff)

\* the options are the defaults (in-string proximity 2, end proximity 1) and
\* no synonym or replacement changes a word of the texts
PlainWords ==
    /\ args.fn = "diff_pair"
    /\ args.options.cwp_synonyms = Entry(Aria, Arie)
    /\ args.options.cwp_replacements = Entry(molto, molto)
    /\ args.options.cwp_proximity = 2

AllegroVivace == Allegro \o <<" ">> \o vivace
AllegroMoltoVivace == Allegro \o <<" ">> \o molto \o <<" ">> \o vivace
MoltoAllegroMolto == molto \o <<" ">> \o Allegro \o <<" ">> \o molto

\* C23 as stated: the title "Allegro molto vivace" compared with the catalogue
\* text "Allegro vivace" under proximity 2 gives the text "molto"
C23_MoltoReturned ==
    (PlainWords /\ Compared(AllegroVivace, AllegroMoltoVivace))
        => Residual(result.diff, molto)

\* C23: under proximity 2 the title "Allegro molto vivace" adds nothing to the
\* catalogue text "Allegro vivace", because its one new word is strictly
\* inside the title and is no longer counted as new; the title "molto Allegro
\* molto" has a new word on both sides of the catalogued word, which is filled
\* in, and is returned whole as one connected text
C23_SingletonDroppedGapFilled ==
    PlainWords =>
        /\ Compared(AllegroVivace, AllegroMoltoVivace) => Empty(result.diff)
        /\ Compared(AllegroVivace, MoltoAllegroMolto)
               => Residual(result.diff, MoltoAllegroMolto)

C23_witness ==
    /\ PlainWords
    /\ Compared(AllegroVivace, AllegroMoltoVivace)
    /\ Empty(result.diff)

\* a text of words with spaces between them
WordsOnly(text) == \A i \in DOMAIN text : text[i] = " " \/ IsWordChar(text[i])

\* the entries reported on the track with the text
Reported(diff, text) ==
    {diff.cwp_error[i].entry :
        i \in {j \in DOMAIN diff.cwp_error : diff.cwp_error[j].text = text}}

\* an entry of cwp_replacements with another number of elements than two or
\* with a blank key
MalformedReplacement(entry) ==
    Len(Elements(entry)) # 2 \/ Element(Elements(entry)[1]) = <<>>

\* C25: whatever the entries of cwp_synonyms and cwp_replacements are, a
\* comparison of two texts of plain words returns; every synonym entry with
\* another number of elements than two, with a blank element or with
\* punctuation in an element is reported on the track, and so is every
\* replacement entry with another number of elements than two or a blank key
C25_NoEntryFailsDiff ==
    (/\ args.fn = "diff_pair" /\ result.returned
     /\ WordsOnly(args.mb_item) /\ WordsOnly(args.title_item))
        => /\ ~result.diff.raised
           /\ \A entry \in Range(Split(args.options.cwp_replacements, "/")) :
                  MalformedReplacement(entry)
                      => entry \in Reported(result.diff, ERR_REPLACEMENT)
           /\ \A entry \in Range(Split(args.options.cwp_synonyms, "/")) :
                  /\ Len(Elements(entry)) # 2
                         => entry \in Reported(result.diff, ERR_SYN_FORMAT)
                  /\ (Len(Elements(entry)) = 2 /\ \E k \in 1..2 : Element(Elements(entry)[k]) = <<>>)
                         => entry \in Reported(result.diff, ERR_SYN_BLANK)
                  /\ (Len(Elements(entry)) = 2 /\ \E k \in 1..2 : HasPunctuation(Element(Elements(entry)[k])))
                         => entry \in Reported(result.diff, ERR_SYN_PUNC)

\* the text t stands somewhere in the text s
Contained(t, s) == \E p \in 0..(Len(s) - Len(t)) : MatchAt(s, p, t)

\* the run of diff_pair on the arguments of the call, up to the test whether
\* the title is wholly part of the catalogue text
Tested ==
    test_texts(replace_in_title(parse_options(
        strip_prefix(diff_start(args.mb_item, args.title_item)), args.options)))

\* the text a replacement key looks for
KeyText(key) == IF IsRegexKey(key) THEN SubSeq(key, 3, Len(key) - 2) ELSE key

\* no entry of cwp_replacements changes the text x: the key of every entry of
\* two elements is not in x, or is replaced by itself
Untouched(x, o) ==
    \A entry \in Range(Split(o.cwp_replacements, "/")) :
        Len(Elements(entry)) = 2 =>
            \/ Element(Elements(entry)[1]) = Element(Elements(entry)[2])
            \/ ~Contained(KeyText(Element(Elements(entry)[1])), x)

\* C22: when the boiled title, as diff_pair compares it, stands whole in the
\* boiled catalogue text, diff_pair returns None; and the comparison of a
\* non-empty text, which no replacement changes, with itself returns None
C22_ContainedIsEmpty ==
    (args.fn = "diff_pair" /\ result.returned) =>
        /\ (Going(Tested) /\ Contained(boil(Tested.ti_test), boil(Tested.mb_test)))
               => Empty(result.diff)
        /\ (/\ args.mb_item = args.title_item
            /\ args.title_item # <<>>
            /\ Untouched(args.title_item, args.options))
               => Empty(result.diff)

\* longest_common_substring has returned
LcsReturned == args.fn = "longest_common_substring" /\ result.returned

\* the text t is in s at the offset p
At(s, p, t) == p >= 0 /\ MatchAt(s, p, t)

\* C40: the 'string' longest_common_substring returns stands in both arguments,
\* no longer text stands in both, 'start' is an offset of it in s1 and
\* 'length' is the number of its characters
C40_LongestRunStartLength ==
    LcsReturned =>
        /\ Contained(result.value.string, args.s1)
        /\ Contained(result.value.string, args.s2)
        /\ \A t \in Substrings(args.s1) :
               Contained(t, args.s2) => Len(t) <= Len(result.value.string)
        /\ At(args.s1, result.value.start, result.value.string)
        /\ result.value.length = Len(result.value.string)

\* longest_common_sequence has returned
LcsqReturned == args.fn = "longest_common_sequence" /\ result.returned

\* the runs of n items that list1 and list2 share at one offset of the window
SharedRuns(list1, list2, minstart, maxstart, n) ==
    {k \in minstart..maxstart :
        /\ k + n <= Len(list1)
        /\ k + n <= Len(list2)
        /\ Slice(list1, k, k + n) = Slice(list2, k, k + n)}

\* C35: longest_common_sequence returns a dictionary for every window, also
\* for maxstart < minstart; its 'length' is the greatest number of items the
\* two lists share from one offset of the window on, 0 if they share none, and
\* a 'length' above 0 comes with such a run as 'sequence'
C35_LongestRunInWindow ==
    LcsqReturned =>
        /\ result.value.type = "dict"
        /\ \A n \in 1..MaxLen :
               SharedRuns(args.list1, args.list2, args.minstart, args.maxstart, n) # {}
                   => result.value.length >= n
        /\ result.value.length > 0 =>
               /\ ~result.value.sequence.none
               /\ Len(result.value.sequence.items) = result.value.length
               /\ \E k \in SharedRuns(args.list1, args.list2, args.minstart, args.maxstart,
                                       result.value.length) :
                      result.value.sequence.items
                          = Slice(args.list1, k, k + result.value.length)

\* the numeral of n in capitals and in small letters
Spellings(n) == {Numeral(n), Lower(Numeral(n))}

\* C36: from_roman returns the number of the numeral it is given, written in
\* capitals or in small letters; replace_roman_numerals puts the digits of the
\* number in the place of a numeral, and the mark after it, at the end of the
\* text, before a mark at its start, and for each of two numerals in a row
C36_NumeralsBecomeTheirValue ==
    /\ (args.fn = "from_roman" /\ result.returned) =>
           /\ result.value \in 1..MaxRoman
           /\ Numeral(result.value) = Upper(args.s)
    /\ (args.fn = "replace_roman_numerals" /\ result.returned) =>
           /\ \A n \in TextNumbers : \A numeral \in Spellings(n) :
                  /\ \A mark \in NumeralMarks \cup {<<>>} :
                         args.s = NumeralLast(numeral, mark)
                             => result.value = Aria \o <<" ">> \o unicode(n)
                  /\ \A mark \in NumeralMarks :
                         args.s = NumeralFirst(numeral, mark)
                             => result.value = unicode(n) \o <<" ">> \o Aria
           /\ \A m \in 1..12 : \A n \in 1..12 :
                  args.s = NumeralTwice(Numeral(m), Numeral(n))
                      => result.value = unicode(m) \o <<" ">> \o unicode(n)

GappingReturned == args.fn = "gapping" /\ result.returned

\* the first and the last word of the run of words that are not new around
\* the i-th, which is not new
RunStart(l, i) ==
    CHOOSE a \in 1..i : (\A k \in a..i : ~l[k].new) /\ (a = 1 \/ l[a - 1].new)
RunEnd(l, i) ==
    CHOOSE b \in i..Len(l) : (\A k \in i..b : ~l[k].new) /\ (b = Len(l) \/ l[b + 1].new)
RunLength(l, i) == RunEnd(l, i) - RunStart(l, i) + 1

\* a new word stands before the run and after it
Bracketed(l, i) == RunStart(l, i) > 1 /\ RunEnd(l, i) < Len(l)

\* the words that were not new and are new after the gaps are filled
Promoted == {i \in DOMAIN result.singled : ~result.singled[i].new /\ result.value[i].new}

\* C33, as stated: a word is promoted only in a run that has a new word on
\* both sides and is shorter than the threshold, and every such run shorter
\* than the smaller threshold of the two is promoted
C33_OnlyBracketedShorterRuns ==
    GappingReturned =>
        \A i \in DOMAIN result.singled :
            ~result.singled[i].new =>
                /\ i \in Promoted =>
                       /\ Bracketed(result.singled, i)
                       /\ RunLength(result.singled, i) < args.proximity
                /\ (/\ Bracketed(result.singled, i)
                    /\ RunLength(result.singled, i) < Min(args.proximity, args.end_proximity))
                       => i \in Promoted

\* C33, amended: with a new word left, a run of words that are not new is
\* promoted as a whole exactly when a new word follows it and it has at most
\* cwp_proximity words, or it ends the title and has at most cwp_end_proximity
\* (and cwp_proximity) words; a new word before the run is not needed, every
\* other word stays as it was, and no word is lost or changed
C33_RunsUpToThresholdBeforeNewWord ==
    GappingReturned =>
        /\ Len(result.value) = Len(result.singled)
        /\ \A i \in DOMAIN result.singled :
               /\ result.value[i].bit = result.singled[i].bit
               /\ result.singled[i].new => result.value[i].new
               /\ ~result.singled[i].new =>
                      (i \in Promoted <=>
                          /\ NewWords(result.singled) # {}
                          /\ RunLength(result.singled, i) <= args.proximity
                          /\ RunEnd(result.singled, i) = Len(result.singled)
                                 => RunLength(result.singled, i) <= args.end_proximity)

\* a leading word, a gap of two words and a closing word are promoted, a gap
\* of three words is not
C33_witness ==
    /\ GappingReturned
    /\ args.proximity = cwp_proximity
    /\ args.end_proximity = cwp_end_proximity
    /\ \E i \in Promoted : RunLength(result.singled, i) = 2 /\ Bracketed(result.singled, i)
    /\ \E i \in DOMAIN result.value : ~result.value[i].new

\* the new words that stand alone inside the title
Isolated(l) ==
    {i \in NewWords(l) : 1 < i /\ i < Len(l) /\ ~l[i - 1].new /\ ~l[i + 1].new}

\* C34, as stated: every new word inside the title with words that are not new
\* on both sides is demoted, a new word at either edge of the title never
C34_EveryIsolatedDemoted ==
    GappingReturned =>
        /\ \A i \in Isolated(args.ti_rich_list) : ~result.singled[i].new
        /\ \A i \in NewWords(args.ti_rich_list) \cap {1, Len(args.ti_rich_list)} :
               result.singled[i].new

\* C34, amended: a new word is demoted exactly when it is the only new word
\* of the title and is neither its first nor its last word; no gap is filled
\* then, so it is not new when the residual is assembled; with two or more new
\* words none is demoted, and a new word at either edge never
C34_OnlyNewWordInsideDemoted ==
    GappingReturned =>
        /\ Len(result.singled) = Len(args.ti_rich_list)
        /\ \A i \in DOMAIN args.ti_rich_list :
               /\ result.singled[i].bit = args.ti_rich_list[i].bit
               /\ result.singled[i].new <=>
                      /\ args.ti_rich_list[i].new
                      /\ ~(/\ NewWords(args.ti_rich_list) = {i}
                           /\ 1 < i
                           /\ i < Len(args.ti_rich_list))
               /\ (args.ti_rich_list[i].new /\ ~result.singled[i].new)
                      => NewWords(result.value) = {}

\* the only new word, the second of three, is demoted and nothing is new
C34_witness ==
    /\ GappingReturned
    /\ Len(args.ti_rich_list) = 3
    /\ NewWords(args.ti_rich_list) = {2}
    /\ NewWords(result.singled) = {}
    /\ NewWords(result.value) = {}
    /\ args.proximity = cwp_proximity

\* the depth of the tree of a top-level work, as stored in its top node
DepthOf(t) == t.tree[t.top].depth

\* C31: whenever process_album builds the trees of a release, the reference
\* level of each top-level work is depth - 1 if the depth of its tree is at
\* least 3 and the release has a single top-level work, and depth otherwise
C31_ReferenceLevel ==
    [][\A al \in Albums :
          built'[al] # built[al] =>
              \A i \in DOMAIN built'[al] :
                  /\ built'[al][i].levels = DepthOf(built'[al][i])
                  /\ built'[al][i].ref_level =
                         IF DepthOf(built'[al][i]) >= 3 /\ Len(top'[al]) = 1
                         THEN DepthOf(built'[al][i]) - 1
                         ELSE DepthOf(built'[al][i])
                  /\ built'[al][i].ref_height =
                         DepthOf(built'[al][i]) - built'[al][i].ref_level]_vars

\* one release has the opera as its only top-level work, four levels deep,
\* with reference level 2; the other has the opera and a symphony, and the
\* reference level of the opera is 3
C31_witness ==
    \E al \in Albums : \E other \in Albums :
        /\ Len(built[al]) = 1
        /\ DepthOf(built[al][1]) = 3
        /\ built[al][1].ref_level = 2
        /\ built[al][1].ref_height = 1
        /\ Len(built[other]) = 2
        /\ \E i \in DOMAIN built[other] :
               DepthOf(built[other][i]) = 3 /\ built[other][i].ref_level = 3

\* the key is its own ancestor in the cache
RECURSIVE Ancestors(_, _, _)
Ancestors(cache, k, n) ==
    IF n = 0 \/ k \notin DOMAIN cache THEN {}
    ELSE {cache[k]} \cup Ancestors(cache, cache[k], n - 1)
OwnAncestor(cache, k) == k \in Ancestors(cache, k, Cardinality(CacheKeys))

\* the call meets a key that is its own ancestor
MeetsCycle ==
    \E k \in {args.workId} \cup Ancestors(args.works_cache, args.workId,
                                          Cardinality(CacheKeys)) :
        OwnAncestor(args.works_cache, k)

\* an error is reported on a track
ErrorReported == \E t \in Tracks : cwp_error[t] # <<>>

\* C32: a call that resolves ancestors or builds a tree ends without running
\* out of frames whatever the cache holds, and a call that meets a key which
\* is its own ancestor ends with an error reported
C32_CyclesEndReported ==
    (args.fn \in {"check_cache", "process_work_artists", "create_trackback"}
        /\ result.returned) =>
        /\ ~result.raised
        /\ MeetsCycle => ErrorReported

\* the ids of the paths one after the other
RECURSIVE Joined(_)
Joined(paths) == IF paths = <<>> THEN <<>> ELSE paths[1] \o Joined(Tail(paths))

\* the works the requests in flight carry
InFlight == UNION {Range(req.ids) : req \in xmlws}

\* C37: every call of add_works has sent its works in consecutive requests of
\* at most submission_limit works, each work in exactly one of them; and when
\* no request is in flight any more, none has failed and nothing was removed,
\* the size of the collection has grown by the number of works sent and the
\* callback has run once for every call that sent works
C37_SizeGrowsByWorksSent ==
    args.fn = "Collection" =>
        /\ \A i \in DOMAIN result.sent :
               /\ \A j \in DOMAIN result.sent[i].paths :
                      /\ Len(result.sent[i].paths[j]) >= 1
                      /\ Len(result.sent[i].paths[j]) <= result.sent[i].submission_limit
               /\ Range(Joined(result.sent[i].paths)) = result.sent[i].members
               /\ Len(Joined(result.sent[i].paths)) = Cardinality(result.sent[i].members)
        /\ (xmlws = {} /\ result.errors = 0 /\ result.removed = 0) =>
               /\ collection.size = args.size + result.added
               /\ result.callbacks = result.submits

\* C38: the pending works are the works of the requests in flight, and no
\* work is carried by two requests in flight
C38_PendingWhileInFlight ==
    args.fn = "Collection" =>
        /\ collection.pending = InFlight
        /\ \A r1 \in xmlws : \A r2 \in xmlws :
               r1 # r2 => Range(r1.ids) \cap Range(r2.ids) = {}

\* a request of get_collection_members is in flight
Loading == \E req \in xmlws : req.method = "GET"

\* C39: the callback of get_collection_members runs at most once, it is given
\* the member_set with the works of all chunks of the collection, 1..size,
\* and it has run once when get_collection_members was called and all its
\* requests are answered without error, also for a collection of size 0
C39_CallbackOnceAfterAllChunks ==
    args.fn = "process_collection" =>
        /\ result.dialogs <= 1
        /\ \A i \in DOMAIN result.given : result.given[i] = 1..args.size
        /\ (result.calls = 1 /\ ~Loading /\ result.errors = 0) => result.dialogs = 1

============================================================================
